---------------------------- MODULE Spec2Model ----------------------------
(***************************************************************************)
(* Evidence-based candidate scoring engine (Chaitanya_Phase_2).            *)
(*                                                                         *)
(* Number representation.  The Python code computes in floating point; the *)
(* model computes in fixed point:                                          *)
(*   credibility, confidence ......... hundredths        (0.6   ->    60)  *)
(*   per-unit contribution, raw sum .. thousandths of a point (6.0 -> 6000)*)
(*   recency weight .................. ten-thousandths   (1.0   -> 10000)  *)
(*   sub-metric score ................ hundredths of a point (5.1 -> 510)  *)
(*   weighted sum (score x weight) ... 1e-4 point   (the /100 is implicit) *)
(*   final score ..................... 1e-7 point       (85.0 -> 850000000)*)
(* Text is represented by what the code observes of it: the number of      *)
(* words and which keyword families occur in it.                           *)
(***************************************************************************)
EXTENDS Integers, Sequences, FiniteSets, TLC

VARIABLES
    pc,                  \* position inside the running operation
    ai_evidence_units,   \* upstream (LLM) evidence records
    resume_text,         \* observed features of the resume text
    evidence_units,      \* list of EvidenceUnit objects
    metrics_11,          \* metric code -> score (hundredths of a point)
    red_flags,           \* list of red flag dicts
    base_sr_score,       \* SR score read before the penalties
    booster_points,      \* capped booster total
    confidence_analysis, \* dict returned by calculate_confidence
    seniority,           \* detected seniority level
    final_score,         \* calculate_final_score result (1e-7 point)
    tier,                \* determine_tier result
    candidates,          \* pool of candidate analysis dicts
    ranked,              \* list returned by apply_tiebreaker
    claim_dict,          \* claim dict given to the rule-based checks
    metric_flags,        \* list returned by _check_metric_plausibility
    circuit_breaker,     \* GeminiAnalyzer.circuit_breaker (CircuitBreaker)
    cache,               \* GeminiAnalyzer.cache (LRUCache)
    clock,               \* time.time() / datetime.now(), in seconds
    call,                \* the last _call_gemini / LRUCache call and its outcome
    screening_engine,    \* api_server's global engine instance
    response             \* the last /api/analyze response

vars == <<pc, ai_evidence_units, resume_text, evidence_units, metrics_11,
          red_flags, base_sr_score, booster_points, confidence_analysis,
          seniority, final_score, tier, candidates, ranked,
          claim_dict, metric_flags, circuit_breaker, cache, clock, call,
          screening_engine, response>>

(* The candidate pool, which the stages of one analysis do not touch *)
pool_vars == <<candidates, ranked>>

NoPool == candidates = << >> /\ ranked = << >>

(* The other components of the repository: the rule-based detector of the  *)
(* verification system, the Gemini analyzer of the selection sheet         *)
(* generator and the API server.  One analysis does not touch them.        *)
detector_vars == <<claim_dict, metric_flags>>

analyzer_vars == <<circuit_breaker, cache, clock, call>>

server_vars == <<screening_engine, response>>

service_vars == <<detector_vars, analyzer_vars, server_vars>>

NoCall ==
    [op |-> "none", prompt |-> "", use_cache |-> FALSE, invoked |-> FALSE,
     result |-> [kind |-> "None", text |-> ""]]

NoEngine == [created |-> FALSE, attrs |-> {}, configured_key |-> "", candidates_db |-> << >>]

NoResponse == << >>

NoServices ==
    /\ claim_dict = [keys |-> {}]
    /\ metric_flags = << >>
    /\ circuit_breaker = [failure_count |-> 0, open_until |-> 0]
    /\ cache = [cache |-> << >>, max_size |-> 0]
    /\ clock = 0
    /\ call = NoCall
    /\ screening_engine = NoEngine
    /\ response = NoResponse

---------------------------------------------------------------------------
(* Bounds of the model *)

MaxRecords == 2
MaxFlags == 3

---------------------------------------------------------------------------
(* SystemConfig *)

TIER_FAST_TRACK == 85
TIER_INTERVIEW == 75
TIER_HOLD == 60
MIN_CONFIDENCE_FAST_TRACK == 70
MIN_CONFIDENCE_INTERVIEW == 50

MetricCodes == <<"TDB", "XR", "OI", "SC", "DA", "LC", "CE", "GA", "SR", "AC", "CF">>

Codes == {MetricCodes[i] : i \in 1..Len(MetricCodes)}

SeniorityLevels == {"junior", "mid", "senior", "lead"}

SENIORITY_WEIGHTS ==
    [junior |-> [TDB |-> 15, XR |-> 10, OI |-> 8, SC |-> 5, DA |-> 5, LC |-> 6,
                 CE |-> 6, GA |-> 8, SR |-> 3, AC |-> 2, CF |-> 2],
     mid    |-> [TDB |-> 22, XR |-> 15, OI |-> 12, SC |-> 8, DA |-> 6, LC |-> 7,
                 CE |-> 5, GA |-> 5, SR |-> 6, AC |-> 3, CF |-> 2],
     senior |-> [TDB |-> 28, XR |-> 16, OI |-> 14, SC |-> 10, DA |-> 6, LC |-> 8,
                 CE |-> 4, GA |-> 4, SR |-> 7, AC |-> 3, CF |-> 1],
     lead   |-> [TDB |-> 30, XR |-> 15, OI |-> 16, SC |-> 12, DA |-> 5, LC |-> 12,
                 CE |-> 3, GA |-> 4, SR |-> 7, AC |-> 3, CF |-> 3]]

SIGMOID_MU == 50
EU_CONTRIBUTION_CAP == 25          \* 0.25, in hundredths
RECENCY_DECAY_TAU_SKILLS == 36
RECENCY_DECAY_TAU_CERTS == 24
MIN_EVIDENCE_THRESHOLD == 2
CONFIDENCE_ALPHA == 40             \* 0.4, in hundredths
CONFIDENCE_BETA == 40
CONFIDENCE_GAMMA == 20
MAX_JOB_GAP_MONTHS == 6
MAX_JOB_CHANGES_3YEARS == 4
MIN_JOB_DURATION_MONTHS == 6

RED_FLAG_PENALTIES == [high |-> 50, medium |-> 30, low |-> 10]   \* hundredths

BOOSTER_AWARD == 5
BOOSTER_PATENT == 5
BOOSTER_MAJOR_OSS == 3
BOOSTER_PUBLICATION == 4
BOOSTER_CAP == 15

CurrentYear == 2025

---------------------------------------------------------------------------
(* Fixed-point scales *)

CredUnit == 10 ^ 2        \* credibility / confidence 1.0
MilliPerPoint == 10 ^ 3   \* contribution units per score point
WeightUnit == 10 ^ 4      \* recency weight 1.0
CentiPerPoint == 10 ^ 2   \* sub-metric score units per score point
FinalPerPoint == 10 ^ 7   \* final score units per score point

Min(a, b) == IF a < b THEN a ELSE b

Max(a, b) == IF a > b THEN a ELSE b

(* round(x, k): x = num/den rounded to the nearest integer (den > 0) *)
RoundDiv(num, den) == (2 * num + den) \div (2 * den)

---------------------------------------------------------------------------
(* math.exp, tabulated.  ExpNegSixthsTable[k+1] = exp(-k/6) in units of     *)
(* 1/10000, for k = 0..60; exp(-k/6) rounds to 0 beyond.                   *)

ExpNegSixthsTable ==
    << 10000, 8465, 7165, 6065, 5134, 4346, 3679, 3114, 2636, 2231,
       1889, 1599, 1353, 1146, 970, 821, 695, 588, 498, 421,
       357, 302, 256, 216, 183, 155, 131, 111, 94, 80,
       67, 57, 48, 41, 35, 29, 25, 21, 18, 15,
       13, 11, 9, 8, 7, 6, 5, 4, 3, 3,
       2, 2, 2, 1, 1, 1, 1, 1, 1, 1,
       0 >>

ExpNegSixths(k) == IF k + 1 <= Len(ExpNegSixthsTable) THEN ExpNegSixthsTable[k + 1] ELSE 0

(* SigmoidTable[d+51] = 100 / (1 + exp(-d/15)) in thousandths of a point,  *)
(* for integer d = -50..150 (sigma = SIGMOID_SIGMA = 15 is in the table).  *)
SigmoidTable ==
    << 3445, 3673, 3917, 4175, 4450, 4743, 5053, 5383, 5732, 6103,
       6497, 6914, 7355, 7823, 8317, 8840, 9392, 9975, 10590, 11238,
       11920, 12638, 13393, 14185, 15016, 15887, 16798, 17751, 18745, 19782,
       20861, 21983, 23148, 24355, 25604, 26894, 28225, 29595, 31003, 32446,
       33924, 35434, 36974, 38541, 40131, 41743, 43373, 45017, 46672, 48334,
       50000, 51666, 53328, 54983, 56627, 58257, 59869, 61459, 63026, 64566,
       66076, 67554, 68997, 70405, 71775, 73106, 74396, 75645, 76852, 78017,
       79139, 80218, 81255, 82249, 83202, 84113, 84984, 85815, 86607, 87362,
       88080, 88762, 89410, 90025, 90608, 91160, 91683, 92177, 92645, 93086,
       93503, 93897, 94268, 94617, 94947, 95257, 95550, 95825, 96083, 96327,
       96555, 96770, 96972, 97162, 97340, 97508, 97665, 97812, 97950, 98080,
       98201, 98315, 98422, 98523, 98617, 98705, 98787, 98864, 98937, 99005,
       99068, 99128, 99184, 99236, 99285, 99331, 99374, 99414, 99451, 99487,
       99520, 99550, 99579, 99606, 99632, 99655, 99677, 99698, 99718, 99736,
       99753, 99769, 99784, 99797, 99811, 99823, 99834, 99845, 99855, 99864,
       99873, 99881, 99889, 99896, 99903, 99909, 99915, 99920, 99925, 99930,
       99935, 99939, 99943, 99947, 99950, 99953, 99956, 99959, 99962, 99964,
       99966, 99969, 99971, 99973, 99974, 99976, 99978, 99979, 99980, 99982,
       99983, 99984, 99985, 99986, 99987, 99988, 99988, 99989, 99990, 99991,
       99991, 99992, 99992, 99993, 99993, 99994, 99994, 99994, 99995, 99995,
       99995 >>

(* sigmoid_score(raw_value, mu): raw_value in thousandths of a point; the   *)
(* result, in thousandths, interpolates the table linearly between integer *)
(* points (error below 0.01 point) and is held at the table's ends.        *)
sigmoid_score(raw_value, mu) ==
    LET d    == raw_value - mu * MilliPerPoint
        lo   == d \div MilliPerPoint            \* floor
        frac == d % MilliPerPoint
        idx  == lo + 51
    IN  IF idx < 1 THEN SigmoidTable[1]
        ELSE IF idx >= Len(SigmoidTable) THEN SigmoidTable[Len(SigmoidTable)]
        ELSE SigmoidTable[idx]
             + ((SigmoidTable[idx + 1] - SigmoidTable[idx]) * frac) \div MilliPerPoint

---------------------------------------------------------------------------
(* EvidenceUnit *)

EmptyContext == [words |-> 0, lead |-> FALSE, scale |-> FALSE, freelance |-> FALSE]

EmptyTime == [start |-> 0, end |-> 0, months |-> -1]

EmptySignals == [delta |-> FALSE, value |-> FALSE, stars |-> FALSE]

(* EvidenceUnit.__init__.  claim: number of words (0: empty string);       *)
(* context: number of words and the keyword families found in it; time:    *)
(* start/end year (0: unset, falsy) and months (-1: key absent);           *)
(* org: whether org.company is set; proof: the keys of the proof dict.     *)
EvidenceUnit(type_, claim, context, time_info, org_info, signals, proof, seniority_signals) ==
    [type |-> type_, claim |-> claim, context |-> context, time |-> time_info,
     org |-> org_info, signals |-> signals, proof |-> proof,
     seniority_signals |-> seniority_signals,
     credibility_score |-> 0, credibility_rationale |-> ""]

(* The ladder of calculate_credibility, summing every matching rule. *)
calculate_credibility_cumulative(self) ==
    LET r1 == IF self.proof \cap {"link", "repo", "patent"} # {} THEN 100 ELSE 0
        r2 == IF (self.signals.delta \/ self.signals.value)
                 /\ self.org.company /\ self.time.start # 0 THEN 80 ELSE 0
        r3 == IF self.context.words > 5 /\ self.time.start # 0 THEN 60 ELSE 0
        r4 == IF self.claim > 2 THEN 30 ELSE 0
    IN  [score |-> r1 + r2 + r3 + r4, rationale |-> "summed"]

(* EvidenceUnit.calculate_credibility: the score and the rationale it sets *)
calculate_credibility(self) ==
    IF self.proof \cap {"link", "repo", "patent"} # {}
    THEN [score |-> 100, rationale |-> "External verifiable link/proof"]
    ELSE IF (self.signals.delta \/ self.signals.value)
            /\ self.org.company /\ self.time.start # 0
    THEN [score |-> 80, rationale |-> "Quantified impact with org and dates"]
    ELSE IF self.context.words > 0 /\ self.time.start # 0 /\ self.context.words > 5
    THEN [score |-> 60, rationale |-> "Descriptive with context and timeline"]
    ELSE IF self.claim > 0 /\ self.claim > 2
    THEN [score |-> 30, rationale |-> "Generic claim without specifics"]
    ELSE [score |-> 0, rationale |-> "Insufficient evidence"]

(* dict.get(key, default) on an upstream record: keys holds the keys present *)
Get(d, key, default) == IF key \in d.keys THEN d[key] ELSE default

(* One iteration of the loop of extract_from_ai_analysis *)
Convert(eu_dict) ==
    LET eu == EvidenceUnit(Get(eu_dict, "type", "general"), Get(eu_dict, "claim", 0),
                           eu_dict.context, eu_dict.time, eu_dict.org,
                           eu_dict.signals, eu_dict.proof, eu_dict.seniority_signals)
    IN  [eu EXCEPT !.credibility_score = Get(eu_dict, "credibility_score", 50),
                   !.credibility_rationale = Get(eu_dict, "rationale", "")]

(* EvidenceExtractor.extract_from_ai_analysis *)
extract_from_ai_analysis(recs) == [i \in 1..Len(recs) |-> Convert(recs[i])]

(* EvidenceExtractor.calculate_recency_weight, for months_ago a multiple of  *)
(* tau/6 (months_ago is years*12 and tau is 36 or 24); result in 1/10000.  *)
calculate_recency_weight(months_ago, tau) ==
    IF months_ago < 0 THEN WeightUnit
    ELSE ExpNegSixths((6 * months_ago) \div tau)

---------------------------------------------------------------------------
(* ScoringEngine: the eleven sub-metrics *)

(* metric_filters with TDB restricted to skill_use and project *)
metric_filters_tdb_no_role ==
    [TDB |-> {"skill_use", "project"},
     XR  |-> {"role", "project"},
     OI  |-> {"impact", "project"},
     SC  |-> {"project", "role"},
     DA  |-> {"role", "project"},
     LC  |-> {"role"},
     CE  |-> {"project", "publication", "cert"},
     GA  |-> {"cert", "skill_use", "project"},
     SR  |-> {"role"},
     AC  |-> {"role"},
     CF  |-> {"role"}]

(* metric_filters with CF taken from roles and projects *)
metric_filters_cf_projects ==
    [TDB |-> {"skill_use", "project", "role"},
     XR  |-> {"role", "project"},
     OI  |-> {"impact", "project"},
     SC  |-> {"project", "role"},
     DA  |-> {"role", "project"},
     LC  |-> {"role"},
     CE  |-> {"project", "publication", "cert"},
     GA  |-> {"cert", "skill_use", "project"},
     SR  |-> {"role"},
     AC  |-> {"role"},
     CF  |-> {"role", "project"}]

(* metric_filters of _filter_eus_for_metric *)
metric_filters ==
    [TDB |-> {"skill_use", "project", "role"},
     XR  |-> {"role", "project"},
     OI  |-> {"impact", "project"},
     SC  |-> {"project", "role"},
     DA  |-> {"role", "project"},
     LC  |-> {"role"},
     CE  |-> {"project", "publication", "cert"},
     GA  |-> {"cert", "skill_use", "project"},
     SR  |-> {"role"},
     AC  |-> {"role"},
     CF  |-> {"role"}]

(* The condition under which _filter_eus_for_metric keeps a unit *)
Relevant(eu, metric_type) ==
    \/ eu.type \in metric_filters[metric_type]
    \/ metric_type = "OI" /\ eu.signals.delta
    \/ metric_type = "LC" /\ eu.context.lead

(* ScoringEngine._filter_eus_for_metric *)
_filter_eus_for_metric(units, metric_type) ==
    LET Keep(eu) == Relevant(eu, metric_type)
    IN  SelectSeq(units, Keep)

(* One unit's capped contribution to a metric, in thousandths of a point *)
Contribution(eu, metric_type, apply_recency) ==
    LET base == eu.credibility_score * 10 * (MilliPerPoint \div CredUnit)
        tau  == IF metric_type = "GA" THEN RECENCY_DECAY_TAU_CERTS
                ELSE RECENCY_DECAY_TAU_SKILLS
        aged == IF apply_recency /\ eu.time.end # 0
                THEN (base * calculate_recency_weight((CurrentYear - eu.time.end) * 12, tau))
                     \div WeightUnit
                ELSE base
        sc   == IF metric_type = "SC" /\ eu.context.scale THEN (aged * 15) \div 10 ELSE aged
        oi   == IF metric_type = "OI" /\ eu.signals.delta THEN (sc * 13) \div 10 ELSE sc
    IN  Min(oi, EU_CONTRIBUTION_CAP * MilliPerPoint)

RECURSIVE SumContributions(_, _, _)
SumContributions(units, metric_type, apply_recency) ==
    IF units = << >> THEN 0
    ELSE Contribution(Head(units), metric_type, apply_recency)
         + SumContributions(Tail(units), metric_type, apply_recency)

(* calculate_metric_from_eus without the empty-list short-circuit *)
calculate_metric_from_eus_no_shortcut(units, metric_type, apply_recency) ==
    LET relevant_eus == _filter_eus_for_metric(units, metric_type)
        raw_score    == SumContributions(relevant_eus, metric_type, apply_recency)
        final        == sigmoid_score(raw_score, SIGMOID_MU)
    IN  Min(100 * MilliPerPoint, Max(0, final))

(* ScoringEngine.calculate_metric_from_eus; result in thousandths of a point *)
calculate_metric_from_eus(units, metric_type, apply_recency) ==
    LET relevant_eus == _filter_eus_for_metric(units, metric_type)
        raw_score    == SumContributions(relevant_eus, metric_type, apply_recency)
        final        == sigmoid_score(raw_score, SIGMOID_MU)
    IN  IF relevant_eus = << >> THEN 0
        ELSE Min(100 * MilliPerPoint, Max(0, final))

(* round(score, 1), kept in hundredths of a point *)
Round1(score_milli) == RoundDiv(score_milli, 100) * 10

(* calculate_all_11_metrics with recency decay applied to every metric *)
calculate_all_11_metrics_all_decayed(units) ==
    [code \in Codes |-> Round1(calculate_metric_from_eus(units, code, TRUE))]

(* ScoringEngine.calculate_all_11_metrics: code -> score *)
calculate_all_11_metrics(units) ==
    [code \in Codes |->
        Round1(calculate_metric_from_eus(units, code, code \in {"XR", "GA"}))]

---------------------------------------------------------------------------
(* RedFlagDetector *)

FlagKeys == {"flag", "severity", "impact", "context_considered"}

Flag(kind, severity, impact, context_considered) ==
    [flag |-> kind, severity |-> severity, impact |-> impact,
     context_considered |-> context_considered, keys |-> FlagKeys]

(* sorted(seq, key=lambda x: x.time.get(field, 0)): stable insertion *)
RECURSIVE InsertByTime(_, _, _)
InsertByTime(x, sorted, field) ==
    IF sorted = << >> THEN <<x>>
    ELSE IF x.time[field] < Head(sorted).time[field]
         THEN <<x>> \o sorted
         ELSE <<Head(sorted)>> \o InsertByTime(x, Tail(sorted), field)

RECURSIVE SortedByTime(_, _)
SortedByTime(seq, field) ==
    IF seq = << >> THEN << >>
    ELSE InsertByTime(seq[Len(seq)], SortedByTime(SubSeq(seq, 1, Len(seq) - 1), field), field)

RECURSIVE InsertInt(_, _)
InsertInt(x, sorted) ==
    IF sorted = << >> THEN <<x>>
    ELSE IF x < Head(sorted) THEN <<x>> \o sorted
         ELSE <<Head(sorted)>> \o InsertInt(x, Tail(sorted))

RECURSIVE SortedInts(_)
SortedInts(seq) ==
    IF seq = << >> THEN << >> ELSE InsertInt(Head(seq), SortedInts(Tail(seq)))

IsRole(eu) == eu.type = "role"

HasStart(eu) == eu.time.start # 0

HasEnd(eu) == eu.time.end # 0

(* eu.time.get('months', 999) *)
MonthsOr999(eu) == IF eu.time.months = -1 THEN 999 ELSE eu.time.months

IsShortTenure(eu) ==
    MonthsOr999(eu) < MIN_JOB_DURATION_MONTHS /\ ~eu.context.freelance

(* _detect_employment_gaps with the roles sorted by start year, as its     *)
(* comment says, instead of by end year                                    *)
_detect_employment_gaps_by_start(job_roles, has_reason) ==
    IF Len(job_roles) < 2 THEN << >>
    ELSE
      LET sorted_roles == SortedByTime(SelectSeq(job_roles, HasEnd), "start")
          IsGap(i) ==
              LET end_year   == sorted_roles[i].time.end
                  next_start == sorted_roles[i + 1].time.start
              IN  /\ next_start # 0
                  /\ end_year # 0
                  /\ (next_start - end_year) * 12 > MAX_JOB_GAP_MONTHS
          GapFlag == Flag("Employment gap",
                          IF has_reason THEN "low" ELSE "medium",
                          "Gap in employment history",
                          IF has_reason THEN "Education/caregiving reasons considered"
                          ELSE "No explanation found")
          idx == SelectSeq([i \in 1..(Len(sorted_roles) - 1) |-> i], IsGap)
      IN  [j \in 1..Len(idx) |-> GapFlag]

(* RedFlagDetector._detect_employment_gaps; has_reason: the resume text     *)
(* contains one of CAREER_BREAK_INDICATORS                                 *)
_detect_employment_gaps(job_roles, has_reason) ==
    IF Len(job_roles) < 2 THEN << >>
    ELSE
      LET sorted_roles == SortedByTime(SelectSeq(job_roles, HasEnd), "end")
          IsGap(i) ==
              LET end_year   == sorted_roles[i].time.end
                  next_start == sorted_roles[i + 1].time.start
              IN  /\ next_start # 0
                  /\ end_year # 0
                  /\ (next_start - end_year) * 12 > MAX_JOB_GAP_MONTHS
          GapFlag == Flag("Employment gap",
                          IF has_reason THEN "low" ELSE "medium",
                          "Gap in employment history",
                          IF has_reason THEN "Education/caregiving reasons considered"
                          ELSE "No explanation found")
          idx == SelectSeq([i \in 1..(Len(sorted_roles) - 1) |-> i], IsGap)
      IN  [j \in 1..Len(idx) |-> GapFlag]

(* RedFlagDetector._detect_date_conflicts *)
_detect_date_conflicts(job_roles) ==
    LET sorted_roles == SortedByTime(SelectSeq(job_roles, HasStart), "start")
    IN  \E i \in 1..(Len(sorted_roles) - 1) :
            LET role1 == sorted_roles[i]
                role2 == sorted_roles[i + 1]
                end1  == IF role1.time.end = 0 THEN 9999 ELSE role1.time.end
            IN  /\ ~role1.context.freelance
                /\ ~role2.context.freelance
                /\ role2.time.start < end1

(* RedFlagDetector.detect_red_flags *)
detect_red_flags(units, has_reason) ==
    LET job_roles     == SelectSeq(units, IsRole)
        short_tenures == SelectSeq(job_roles, IsShortTenure)
        short_flags   ==
            IF short_tenures # << >>
            THEN <<Flag("Short tenure(s)",
                        IF Len(short_tenures) > 1 THEN "medium" ELSE "low",
                        "May indicate instability",
                        "Internships and contract roles excluded")>>
            ELSE << >>
        started       == SelectSeq(job_roles, HasStart)
        dates_sorted  == SortedInts([i \in 1..Len(started) |-> started[i].time.start])
        hop_flags     ==
            IF /\ Len(job_roles) >= MAX_JOB_CHANGES_3YEARS
               /\ Len(dates_sorted) >= 4
               /\ dates_sorted[Len(dates_sorted)] - dates_sorted[Len(dates_sorted) - 3] <= 3
            THEN <<Flag("job changes in <=3 years", "medium",
                        "Job hopping pattern detected",
                        "Layoffs and career pivots considered")>>
            ELSE << >>
        gaps          == _detect_employment_gaps(job_roles, has_reason)
        conflict      ==
            IF _detect_date_conflicts(job_roles)
            THEN <<Flag("Overlapping or conflicting employment dates", "high",
                        "Timeline inconsistencies detected", "May need clarification")>>
            ELSE << >>
    IN  short_flags \o hop_flags \o gaps \o conflict

(* flag.get('severity', 'low'), then RED_FLAG_PENALTIES.get(severity, 0.1) *)
PenaltyOf(flag) ==
    LET severity == IF "severity" \in flag.keys THEN flag.severity ELSE "low"
    IN  IF severity \in DOMAIN RED_FLAG_PENALTIES THEN RED_FLAG_PENALTIES[severity]
        ELSE 10

(* The penalties of all flags added up and subtracted once *)
RECURSIVE SumPenalties(_)
SumPenalties(flags) ==
    IF flags = << >> THEN 0 ELSE PenaltyOf(Head(flags)) + SumPenalties(Tail(flags))

apply_red_flag_penalties_additive(base, flags) ==
    Max(0, (base * (CredUnit - SumPenalties(flags))) \div CredUnit)

(* The loop of apply_red_flag_penalties: scores in hundredths of a point,  *)
(* each product truncated to that resolution                               *)
RECURSIVE PenaltyLoop(_, _)
PenaltyLoop(score, flags) ==
    IF flags = << >> THEN score
    ELSE PenaltyLoop((score * (CredUnit - PenaltyOf(Head(flags)))) \div CredUnit, Tail(flags))

(* RedFlagDetector.apply_red_flag_penalties *)
apply_red_flag_penalties(base, flags) ==
    Max(0, PenaltyLoop(base, flags))

---------------------------------------------------------------------------
(* PositiveBoosterEngine *)

(* The boost one unit adds in the loop of calculate_boosters *)
UnitBoost(eu) ==
      (IF "award" \in eu.proof \/ eu.type = "award" THEN BOOSTER_AWARD ELSE 0)
    + (IF "patent" \in eu.proof \/ eu.type = "patent" THEN BOOSTER_PATENT ELSE 0)
    + (IF eu.type = "publication" \/ "publication" \in eu.proof
       THEN BOOSTER_PUBLICATION ELSE 0)
    + (IF "repo" \in eu.proof /\ eu.signals.stars THEN BOOSTER_MAJOR_OSS ELSE 0)

RECURSIVE SumBoosts(_)
SumBoosts(units) ==
    IF units = << >> THEN 0 ELSE UnitBoost(Head(units)) + SumBoosts(Tail(units))

(* The booster total without the cap *)
calculate_boosters_uncapped(units) == SumBoosts(units)

(* PositiveBoosterEngine.calculate_boosters: total_boost *)
calculate_boosters(units) == Min(SumBoosts(units), BOOSTER_CAP)

---------------------------------------------------------------------------
(* ScoringEngine: confidence, final score, tier *)

RECURSIVE SumCredibility(_)
SumCredibility(units) ==
    IF units = << >> THEN 0
    ELSE Head(units).credibility_score + SumCredibility(Tail(units))

(* The dates list of _calculate_consistency *)
RECURSIVE Dates(_)
Dates(units) ==
    IF units = << >> THEN << >>
    ELSE (IF Head(units).time.start # 0 THEN <<Head(units).time.start>> ELSE << >>)
         \o (IF Head(units).time.end # 0 THEN <<Head(units).time.end>> ELSE << >>)
         \o Dates(Tail(units))

RECURSIVE Issues(_)
Issues(dates) ==
    IF dates = << >> THEN 0
    ELSE (IF Head(dates) > CurrentYear THEN 1 ELSE 0)
         + (IF Head(dates) < 1990 THEN 1 ELSE 0)
         + Issues(Tail(dates))

(* ScoringEngine._calculate_consistency, as the fraction num/den *)
_calculate_consistency(units) ==
    LET dates == Dates(units)
    IN  IF Len(dates) = 0 THEN [num |-> 1, den |-> 2]
        ELSE [num |-> Max(0, Len(dates) - Issues(dates)), den |-> Len(dates)]

(* Number of metrics with at least MIN_EVIDENCE_THRESHOLD relevant units *)
CoverageCount(units) ==
    Cardinality({code \in Codes :
        Len(_filter_eus_for_metric(units, code)) >= MIN_EVIDENCE_THRESHOLD})

(* data_gaps: the metric codes below the threshold, in metric order *)
DataGaps(units) ==
    LET Below(code) == Len(_filter_eus_for_metric(units, code)) < MIN_EVIDENCE_THRESHOLD
    IN  SelectSeq(MetricCodes, Below)

(* calculate_confidence with a metric counted as covered from one unit on *)
calculate_confidence_single_unit_covers(units) ==
    LET n    == Len(units)
        n1   == Max(n, 1)
        cons == _calculate_consistency(units)
        Covered(code) == Len(_filter_eus_for_metric(units, code)) >= 1
        count == Len(SelectSeq(MetricCodes, Covered))
        den  == CredUnit * n1 * 11 * cons.den
        num  == CONFIDENCE_ALPHA * SumCredibility(units) * 11 * cons.den
                + CONFIDENCE_BETA * CredUnit * count * n1 * cons.den
                + CONFIDENCE_GAMMA * CredUnit * cons.num * n1 * 11
    IN  [overall_confidence |-> RoundDiv(num, den),
         avg_credibility    |-> RoundDiv(SumCredibility(units), n1),
         coverage_ratio     |-> RoundDiv(CredUnit * count, 11),
         consistency_score  |-> RoundDiv(CredUnit * cons.num, cons.den),
         data_gaps          |-> SubSeq(DataGaps(units), 1, Min(3, Len(DataGaps(units))))]

(* ScoringEngine.calculate_confidence.  With avg = SumCredibility/(100 n),  *)
(* coverage = count/11 and consistency = cons.num/cons.den, the confidence *)
(* in hundredths is num/den below; the returned fields are round(x, 2).    *)
calculate_confidence(units) ==
    LET n    == Len(units)
        n1   == Max(n, 1)
        cons == _calculate_consistency(units)
        den  == CredUnit * n1 * 11 * cons.den
        num  == CONFIDENCE_ALPHA * SumCredibility(units) * 11 * cons.den
                + CONFIDENCE_BETA * CredUnit * CoverageCount(units) * n1 * cons.den
                + CONFIDENCE_GAMMA * CredUnit * cons.num * n1 * 11
    IN  [overall_confidence |-> RoundDiv(num, den),
         avg_credibility    |-> RoundDiv(SumCredibility(units), n1),
         coverage_ratio     |-> RoundDiv(CredUnit * CoverageCount(units), 11),
         consistency_score  |-> RoundDiv(CredUnit * cons.num, cons.den),
         data_gaps          |-> SubSeq(DataGaps(units), 1, Min(3, Len(DataGaps(units))))]

RECURSIVE WeightedSum(_, _, _)
WeightedSum(metrics, weights, i) ==
    IF i > Len(MetricCodes) THEN 0
    ELSE metrics[MetricCodes[i]] * weights[MetricCodes[i]]
         + WeightedSum(metrics, weights, i + 1)

(* raw_score after "raw_score += boosters", in 1e-4 point *)
RawWithBoosters(metrics, level, boosters) ==
    LET weights == IF level \in DOMAIN SENIORITY_WEIGHTS THEN SENIORITY_WEIGHTS[level]
                   ELSE SENIORITY_WEIGHTS["senior"]
    IN  WeightedSum(metrics, weights, 1) + boosters * 100 * CentiPerPoint

(* adjusted_score = raw_score * (0.9 + 0.1 * confidence), in 1e-7 point:   *)
(* with confidence in hundredths the factor is (900 + confidence)/1000     *)
AdjustedScore(metrics, level, confidence, boosters) ==
    RawWithBoosters(metrics, level, boosters) * (9 * CredUnit + confidence)

(* calculate_final_score returning the adjusted score unclamped *)
calculate_final_score_unclamped(metrics, level, confidence, boosters) ==
    AdjustedScore(metrics, level, confidence, boosters)

(* ScoringEngine.calculate_final_score, in 1e-7 point *)
calculate_final_score(metrics, level, confidence, boosters) ==
    Min(100 * FinalPerPoint, Max(0, AdjustedScore(metrics, level, confidence, boosters)))

(* determine_tier without the confidence guardrails *)
determine_tier_score_only(score, confidence) ==
    IF score >= TIER_FAST_TRACK * FinalPerPoint THEN "Fast-Track"
    ELSE IF score >= TIER_INTERVIEW * FinalPerPoint THEN "Advance to Interview"
    ELSE IF score >= TIER_HOLD * FinalPerPoint THEN "Hold/More Info"
    ELSE "No-Go"

(* ScoringEngine.determine_tier: score in 1e-7 point, confidence in hundredths *)
determine_tier(score, confidence) ==
    IF score >= TIER_FAST_TRACK * FinalPerPoint /\ confidence >= MIN_CONFIDENCE_FAST_TRACK
    THEN "Fast-Track"
    ELSE IF score >= TIER_INTERVIEW * FinalPerPoint /\ confidence >= MIN_CONFIDENCE_INTERVIEW
    THEN "Advance to Interview"
    ELSE IF score >= TIER_HOLD * FinalPerPoint
    THEN "Hold/More Info"
    ELSE IF confidence < MIN_CONFIDENCE_INTERVIEW
    THEN "Hold/More Info"
    ELSE "No-Go"

(* tiebreaker_key of apply_tiebreaker: candidate.get('metrics_11', {}) and *)
(* candidate.get('confidence_score', 0); a missing metric scores 0         *)
tiebreaker_key(candidate) ==
    LET Score(name) ==
            IF "metrics_11" \in candidate.keys /\ name \in DOMAIN candidate.metrics_11
            THEN candidate.metrics_11[name] ELSE 0
        confidence == IF "confidence_score" \in candidate.keys
                      THEN candidate.confidence_score ELSE 0
    IN  <<Score("OI_outcome_impact"), Score("TDB_technical_depth_breadth"), confidence,
          100 * CentiPerPoint - Score("SR_stability_risk")>>

(* Python's ordering of two key tuples of the same length: a < b *)
RECURSIVE TupleLess(_, _)
TupleLess(a, b) ==
    IF a = << >> THEN FALSE
    ELSE IF Head(a) # Head(b) THEN Head(a) < Head(b)
    ELSE TupleLess(Tail(a), Tail(b))

(* sorted(key=..., reverse=True) is stable: an element goes after every    *)
(* earlier element whose key is greater or equal                           *)
RECURSIVE InsertDescending(_, _)
InsertDescending(x, sorted) ==
    IF sorted = << >> THEN <<x>>
    ELSE IF TupleLess(tiebreaker_key(Head(sorted)), tiebreaker_key(x))
         THEN <<x>> \o sorted
         ELSE <<Head(sorted)>> \o InsertDescending(x, Tail(sorted))

(* sorted(key=...) ascending and stable *)
RECURSIVE InsertAscending(_, _)
InsertAscending(x, sorted) ==
    IF sorted = << >> THEN <<x>>
    ELSE IF TupleLess(tiebreaker_key(x), tiebreaker_key(Head(sorted)))
         THEN <<x>> \o sorted
         ELSE <<Head(sorted)>> \o InsertAscending(x, Tail(sorted))

RECURSIVE SortedAscending(_)
SortedAscending(pool) ==
    IF pool = << >> THEN << >>
    ELSE InsertAscending(pool[Len(pool)], SortedAscending(SubSeq(pool, 1, Len(pool) - 1)))

(* The pool sorted ascending and then reversed: equal keys change places *)
apply_tiebreaker_reversed(pool) ==
    LET up == SortedAscending(pool)
    IN  [i \in 1..Len(up) |-> up[Len(up) + 1 - i]]

(* ScoringEngine.apply_tiebreaker *)
RECURSIVE apply_tiebreaker(_)
apply_tiebreaker(pool) ==
    IF pool = << >> THEN << >>
    ELSE InsertDescending(pool[Len(pool)], apply_tiebreaker(SubSeq(pool, 1, Len(pool) - 1)))

---------------------------------------------------------------------------
(* GeminiScreeningEngine: fallback extraction and seniority *)

NoOrg == [company |-> FALSE]

(* A unit built by the fallback code: constructor, then the score and the  *)
(* rationale assigned to it                                                *)
Scored(eu, score, rationale) ==
    [eu EXCEPT !.credibility_score = score, !.credibility_rationale = rationale]

Words(n) == [EmptyContext EXCEPT !.words = n]

(* GeminiScreeningEngine._smart_evidence_extraction.  text holds what the   *)
(* regular expressions find: years (largest "N years", 0: none), skills,   *)
(* edu, led (a match exists), companies (per company match, its year or 0),*)
(* impacts and projects (number of matches kept).                          *)
_smart_evidence_extraction(text) ==
    LET years_eu ==
            IF text.years > 0
            THEN <<Scored(EvidenceUnit("role", 4, Words(3),
                              [EmptyTime EXCEPT !.months = text.years * 12],
                              NoOrg, EmptySignals, {}, 0),
                          60, "Experience duration stated in resume")>>
            ELSE << >>
        skills_eu ==
            IF text.skills
            THEN <<Scored(EvidenceUnit("skill_use", 3, Words(3), EmptyTime,
                              NoOrg, EmptySignals, {}, 0),
                          70, "Skills explicitly mentioned")>>
            ELSE << >>
        edu_eu ==
            IF text.edu
            THEN <<Scored(EvidenceUnit("cert", 3, Words(3), EmptyTime,
                              NoOrg, EmptySignals, {}, 0),
                          80, "Educational qualification mentioned")>>
            ELSE << >>
        CompanyEu(year) ==
            IF year # 0
            THEN Scored(EvidenceUnit("role", 3, Words(5),
                            [start |-> year, end |-> 0, months |-> 12],
                            [company |-> TRUE], EmptySignals, {}, 0),
                        80, "Major company with dates")
            ELSE Scored(EvidenceUnit("role", 3, Words(3), EmptyTime,
                            [company |-> TRUE], EmptySignals, {}, 0),
                        60, "Major company mentioned")
        company_eus ==
            [i \in 1..Min(3, Len(text.companies)) |-> CompanyEu(text.companies[i])]
        impact_eus ==
            [i \in 1..text.impacts |->
                Scored(EvidenceUnit("impact", 4, Words(4), EmptyTime, NoOrg,
                           [EmptySignals EXCEPT !.delta = TRUE], {}, 0),
                       90, "Quantified impact metric")]
        project_eus ==
            [i \in 1..text.projects |->
                Scored(EvidenceUnit("project", 6, Words(3), EmptyTime, NoOrg,
                           EmptySignals, {}, 0),
                       60, "Project description found")]
        led_eu ==
            IF text.led
            THEN <<Scored(EvidenceUnit("role", 3,
                              [Words(3) EXCEPT !.lead = TRUE], EmptyTime,
                              NoOrg, EmptySignals, {}, 1),
                          60, "Leadership keyword found")>>
            ELSE << >>
        all == years_eu \o skills_eu \o edu_eu \o company_eus \o impact_eus
               \o project_eus \o led_eu
    IN  SubSeq(all, 1, Min(15, Len(all)))

(* GeminiScreeningEngine._create_minimal_evidence: context is the first    *)
(* 200 characters of the resume text                                       *)
_create_minimal_evidence(text) ==
    <<Scored(EvidenceUnit("role", 3, text.head,
                 [EmptyTime EXCEPT !.months = 24], NoOrg, EmptySignals, {}, 0),
             40, "Minimal evidence - requires manual review")>>

(* BuildEvidence without the minimal-evidence step *)
BuildEvidence_no_minimum(recs, text) ==
    LET from_ai == extract_from_ai_analysis(recs)
    IN  IF Len(from_ai) < 3 THEN from_ai \o _smart_evidence_extraction(text) ELSE from_ai

(* Steps 2 of analyze_candidate: the evidence list handed to the scoring   *)
(* stages                                                                  *)
BuildEvidence(recs, text) ==
    LET from_ai  == extract_from_ai_analysis(recs)
        extended == IF Len(from_ai) < 3
                    THEN from_ai \o _smart_evidence_extraction(text)
                    ELSE from_ai
    IN  IF Len(extended) = 0 THEN _create_minimal_evidence(text) ELSE extended

RECURSIVE TotalMonths(_)
TotalMonths(units) ==
    IF units = << >> THEN 0
    ELSE (IF Head(units).time.months > 0 THEN Head(units).time.months ELSE 0)
         + TotalMonths(Tail(units))

HasSenioritySignals(eu) == eu.seniority_signals > 0

(* GeminiScreeningEngine._detect_seniority; total_years >= k is             *)
(* TotalMonths >= 12 k                                                     *)
_detect_seniority(units, text) ==
    LET total_months     == TotalMonths(units)
        leadership_count == Len(SelectSeq(units, HasSenioritySignals))
    IN  IF total_months >= 120 \/ leadership_count >= 3 \/ text.kw_lead THEN "lead"
        ELSE IF total_months >= 60 \/ leadership_count >= 1 \/ text.kw_senior THEN "senior"
        ELSE IF total_months >= 24 \/ text.kw_engineer THEN "mid"
        ELSE "junior"

---------------------------------------------------------------------------
(* Inputs *)

(* An upstream evidence record (a dict parsed from the LLM's JSON): keys    *)
(* holds which of type, claim, credibility_score, rationale are present.   *)
Record(keys, type_, claim, context, time_info, org_info, signals, proof, sen, score, rationale) ==
    [keys |-> keys, type |-> type_, claim |-> claim, context |-> context,
     time |-> time_info, org |-> org_info, signals |-> signals, proof |-> proof,
     seniority_signals |-> sen, credibility_score |-> score, rationale |-> rationale]

ScoredKeys == {"type", "claim", "credibility_score", "rationale"}

(* one role, 5 years, 20-word context, no proof, no signals, no score *)
RoleBare ==
    Record({"type", "claim"}, "role", 3, Words(20),
           [start |-> 2020, end |-> 2025, months |-> 60],
           NoOrg, EmptySignals, {}, 0, 0, "")

ProjectQuantified ==
    Record(ScoredKeys, "project", 6,
           [words |-> 8, lead |-> TRUE, scale |-> TRUE, freelance |-> FALSE],
           [start |-> 2022, end |-> 2023, months |-> 12],
           [company |-> TRUE], [EmptySignals EXCEPT !.delta = TRUE], {}, 1,
           80, "Quantified impact with tech stack")

(* a record whose credibility_score is outside the 0-1 scale *)
ProjectOverScored ==
    Record(ScoredKeys, "project", 4, Words(6),
           [start |-> 2021, end |-> 2024, months |-> 36],
           NoOrg, EmptySignals, {}, 0, 150, "Very strong evidence")

SkillWeak ==
    Record(ScoredKeys, "skill_use", 2, EmptyContext, EmptyTime,
           NoOrg, EmptySignals, {}, 0, 0, "")

PublicationAward ==
    Record(ScoredKeys, "publication", 5, Words(7),
           [start |-> 0, end |-> 2019, months |-> -1],
           NoOrg, [EmptySignals EXCEPT !.stars = TRUE], {"link", "award", "repo"}, 0,
           100, "Published, with link")

RoleShort ==
    Record(ScoredKeys, "role", 4, Words(9),
           [start |-> 2024, end |-> 2024, months |-> 3],
           [company |-> TRUE], EmptySignals, {}, 0, 60, "Has company and dates")

RoleOld ==
    Record(ScoredKeys, "role", 4,
           [words |-> 6, lead |-> FALSE, scale |-> FALSE, freelance |-> TRUE],
           [start |-> 1985, end |-> 2010, months |-> 300],
           [company |-> TRUE], [EmptySignals EXCEPT !.value = TRUE], {}, 1,
           80, "Has company and dates")

(* a malformed record: no type, no claim, no score *)
Malformed ==
    Record({}, "", 0, Words(4), EmptyTime, NoOrg, EmptySignals, {}, 0, 0, "")

SampleRecords ==
    {RoleBare, ProjectQuantified, ProjectOverScored, SkillWeak, PublicationAward,
     RoleShort, RoleOld, Malformed}

ResumeText(years, skills, edu, companies, impacts, projects, led, career_break, kw_lead, kw_senior, kw_engineer, head) ==
    [years |-> years, skills |-> skills, edu |-> edu, companies |-> companies,
     impacts |-> impacts, projects |-> projects, led |-> led,
     career_break |-> career_break, kw_lead |-> kw_lead, kw_senior |-> kw_senior,
     kw_engineer |-> kw_engineer, head |-> head]

(* a resume text in which none of the fallback patterns matches *)
ResumeBlank ==
    ResumeText(0, FALSE, FALSE, << >>, 0, 0, FALSE, FALSE, FALSE, FALSE, FALSE, Words(12))

ResumeRich ==
    ResumeText(5, TRUE, TRUE, <<2021, 0>>, 1, 1, TRUE, FALSE, FALSE, TRUE, TRUE, Words(30))

ResumeGraduate ==
    ResumeText(0, TRUE, FALSE, << >>, 0, 0, FALSE, TRUE, FALSE, FALSE, FALSE, Words(25))

ResumeLead ==
    ResumeText(12, FALSE, FALSE, <<2019, 2020, 2021>>, 0, 0, TRUE, FALSE, TRUE, FALSE, FALSE,
               [words |-> 28, lead |-> TRUE, scale |-> FALSE, freelance |-> FALSE])

SampleResumes == {ResumeBlank, ResumeRich, ResumeGraduate, ResumeLead}

(* Sequences over S of length at most n *)
SeqsUpTo(S, n) == UNION {[1..k -> S] : k \in 0..n}

NoMetrics == [code \in Codes |-> 0]

NoConfidence ==
    [overall_confidence |-> 0, avg_credibility |-> 0, coverage_ratio |-> 0,
     consistency_score |-> 0, data_gaps |-> << >>]

---------------------------------------------------------------------------
(* analyze_candidate: steps 1-2, then the scoring stages in program order *)

Init ==
    /\ pc = "extract"
    /\ ai_evidence_units \in SeqsUpTo(SampleRecords, MaxRecords)
    /\ resume_text \in SampleResumes
    /\ evidence_units = << >>
    /\ metrics_11 = NoMetrics
    /\ red_flags = << >>
    /\ base_sr_score = 0
    /\ booster_points = 0
    /\ confidence_analysis = NoConfidence
    /\ seniority = ""
    /\ final_score = 0
    /\ tier = ""
    /\ NoPool
    /\ NoServices

ExtractEvidence ==
    /\ pc = "extract"
    /\ evidence_units' = BuildEvidence(ai_evidence_units, resume_text)
    /\ pc' = "metrics"
    /\ UNCHANGED <<pool_vars, service_vars>>
    /\ UNCHANGED <<ai_evidence_units, resume_text, metrics_11, red_flags, base_sr_score,
                   booster_points, confidence_analysis, seniority, final_score, tier>>

CalculateMetrics ==
    /\ pc = "metrics"
    /\ metrics_11' = calculate_all_11_metrics(evidence_units)
    /\ pc' = "red_flags"
    /\ UNCHANGED <<pool_vars, service_vars>>
    /\ UNCHANGED <<ai_evidence_units, resume_text, evidence_units, red_flags, base_sr_score,
                   booster_points, confidence_analysis, seniority, final_score, tier>>

DetectRedFlags ==
    /\ pc = "red_flags"
    /\ red_flags' = detect_red_flags(evidence_units, resume_text.career_break)
    /\ pc' = "penalty"
    /\ UNCHANGED <<pool_vars, service_vars>>
    /\ UNCHANGED <<ai_evidence_units, resume_text, evidence_units, metrics_11, base_sr_score,
                   booster_points, confidence_analysis, seniority, final_score, tier>>

(* Step 6 with the penalty applied to every sub-metric score *)
ApplyPenaltiesGlobal ==
    /\ pc = "penalty"
    /\ base_sr_score' = metrics_11["SR"]
    /\ metrics_11' = [code \in Codes |->
                         apply_red_flag_penalties(metrics_11[code], red_flags)]
    /\ pc' = "boosters"
    /\ UNCHANGED <<pool_vars, service_vars>>
    /\ UNCHANGED <<ai_evidence_units, resume_text, evidence_units, red_flags,
                   booster_points, confidence_analysis, seniority, final_score, tier>>

ApplyPenalties ==
    /\ pc = "penalty"
    /\ base_sr_score' = metrics_11["SR"]
    /\ metrics_11' = [metrics_11 EXCEPT
                         !["SR"] = apply_red_flag_penalties(metrics_11["SR"], red_flags)]
    /\ pc' = "boosters"
    /\ UNCHANGED <<pool_vars, service_vars>>
    /\ UNCHANGED <<ai_evidence_units, resume_text, evidence_units, red_flags,
                   booster_points, confidence_analysis, seniority, final_score, tier>>

CalculateBoosters ==
    /\ pc = "boosters"
    /\ booster_points' = calculate_boosters(evidence_units)
    /\ pc' = "confidence"
    /\ UNCHANGED <<pool_vars, service_vars>>
    /\ UNCHANGED <<ai_evidence_units, resume_text, evidence_units, metrics_11, red_flags,
                   base_sr_score, confidence_analysis, seniority, final_score, tier>>

CalculateConfidence ==
    /\ pc = "confidence"
    /\ confidence_analysis' = calculate_confidence(evidence_units)
    /\ pc' = "seniority"
    /\ UNCHANGED <<pool_vars, service_vars>>
    /\ UNCHANGED <<ai_evidence_units, resume_text, evidence_units, metrics_11, red_flags,
                   base_sr_score, booster_points, seniority, final_score, tier>>

DetectSeniority ==
    /\ pc = "seniority"
    /\ seniority' = _detect_seniority(evidence_units, resume_text)
    /\ pc' = "final"
    /\ UNCHANGED <<pool_vars, service_vars>>
    /\ UNCHANGED <<ai_evidence_units, resume_text, evidence_units, metrics_11, red_flags,
                   base_sr_score, booster_points, confidence_analysis, final_score, tier>>

CalculateFinalScore ==
    /\ pc = "final"
    /\ final_score' = calculate_final_score(metrics_11, seniority,
                          confidence_analysis.overall_confidence, booster_points)
    /\ pc' = "tier"
    /\ UNCHANGED <<pool_vars, service_vars>>
    /\ UNCHANGED <<ai_evidence_units, resume_text, evidence_units, metrics_11, red_flags,
                   base_sr_score, booster_points, confidence_analysis, seniority, tier>>

DetermineTier ==
    /\ pc = "tier"
    /\ tier' = determine_tier(final_score, confidence_analysis.overall_confidence)
    /\ pc' = "done"
    /\ UNCHANGED <<pool_vars, service_vars>>
    /\ UNCHANGED <<ai_evidence_units, resume_text, evidence_units, metrics_11, red_flags,
                   base_sr_score, booster_points, confidence_analysis, seniority, final_score>>

Stages ==
    \/ CalculateMetrics
    \/ DetectRedFlags
    \/ ApplyPenalties
    \/ CalculateBoosters
    \/ CalculateConfidence
    \/ DetectSeniority
    \/ CalculateFinalScore
    \/ DetermineTier

Next == ExtractEvidence \/ Stages

Spec == Init /\ [][Next]_vars

---------------------------------------------------------------------------
(* The scoring stages on an evidence list handed over directly (the list   *)
(* extract_from_ai_analysis returns, the empty list included)              *)

InitStages ==
    /\ pc = "metrics"
    /\ ai_evidence_units \in SeqsUpTo(SampleRecords, MaxRecords)
    /\ evidence_units = extract_from_ai_analysis(ai_evidence_units)
    /\ resume_text \in SampleResumes
    /\ metrics_11 = NoMetrics
    /\ red_flags = << >>
    /\ base_sr_score = 0
    /\ booster_points = 0
    /\ confidence_analysis = NoConfidence
    /\ seniority = ""
    /\ final_score = 0
    /\ tier = ""
    /\ NoPool
    /\ NoServices

SpecStages == InitStages /\ [][Stages]_vars

---------------------------------------------------------------------------
(* EvidenceUnit.calculate_credibility applied to one unit *)

CredibilityInputs ==
    {EvidenceUnit("general", claim, Words(words),
                  [EmptyTime EXCEPT !.start = start], [company |-> company],
                  signals, proof, 0) :
        claim \in {0, 2, 3}, words \in {0, 5, 6}, start \in {0, 2020},
        company \in BOOLEAN,
        signals \in {EmptySignals, [EmptySignals EXCEPT !.delta = TRUE],
                     [EmptySignals EXCEPT !.value = TRUE],
                     [EmptySignals EXCEPT !.stars = TRUE]},
        proof \in {{}, {"link"}, {"repo"}, {"patent"}, {"award"}}}

InitCredibility ==
    /\ pc = "credibility"
    /\ evidence_units \in {<<eu>> : eu \in CredibilityInputs}
    /\ ai_evidence_units = << >>
    /\ resume_text = ResumeBlank
    /\ metrics_11 = NoMetrics
    /\ red_flags = << >>
    /\ base_sr_score = 0
    /\ booster_points = 0
    /\ confidence_analysis = NoConfidence
    /\ seniority = ""
    /\ final_score = 0
    /\ tier = ""
    /\ NoPool
    /\ NoServices

CalculateCredibility ==
    /\ pc = "credibility"
    /\ evidence_units' =
           [i \in 1..Len(evidence_units) |->
               Scored(evidence_units[i],
                      calculate_credibility(evidence_units[i]).score,
                      calculate_credibility(evidence_units[i]).rationale)]
    /\ pc' = "done"
    /\ UNCHANGED <<pool_vars, service_vars>>
    /\ UNCHANGED <<ai_evidence_units, resume_text, metrics_11, red_flags, base_sr_score,
                   booster_points, confidence_analysis, seniority, final_score, tier>>

SpecCredibility == InitCredibility /\ [][CalculateCredibility]_vars

---------------------------------------------------------------------------
(* apply_red_flag_penalties applied to a base SR score and a flag list *)

Severities == {"low", "medium", "high", "critical"}

SampleFlags == {Flag("flag", severity, "", "") : severity \in Severities}

BaseScores == {0, 340, 510, 5000, 10000}

InitPenalty ==
    /\ pc = "penalty"
    /\ metrics_11 \in {[NoMetrics EXCEPT !["SR"] = b] : b \in BaseScores}
    /\ red_flags \in SeqsUpTo(SampleFlags, MaxFlags)
    /\ ai_evidence_units = << >>
    /\ evidence_units = << >>
    /\ resume_text = ResumeBlank
    /\ base_sr_score = 0
    /\ booster_points = 0
    /\ confidence_analysis = NoConfidence
    /\ seniority = ""
    /\ final_score = 0
    /\ tier = ""
    /\ NoPool
    /\ NoServices

SpecPenalty == InitPenalty /\ [][ApplyPenalties]_vars

---------------------------------------------------------------------------
(* calculate_final_score and determine_tier applied to given sub-metric    *)
(* scores, seniority, confidence and boosters                              *)

SampleScores == {0, 510, 5000, 10000}

SampleMetrics ==
    {[code \in Codes |-> v] : v \in SampleScores}
    \cup {[code \in Codes |-> IF code = hot THEN 10000 ELSE 0] : hot \in Codes}
    \cup {[code \in Codes |-> IF code = cold THEN 0 ELSE 10000] : cold \in Codes}

InitFinal ==
    /\ pc = "final"
    /\ metrics_11 \in SampleMetrics
    /\ seniority \in SeniorityLevels
    /\ confidence_analysis \in
           {[NoConfidence EXCEPT !.overall_confidence = c] : c \in {0, 30, 50, 70, 100}}
    /\ booster_points \in {0, 4, BOOSTER_CAP}
    /\ ai_evidence_units = << >>
    /\ evidence_units = << >>
    /\ resume_text = ResumeBlank
    /\ red_flags = << >>
    /\ base_sr_score = 0
    /\ final_score = 0
    /\ tier = ""
    /\ NoPool
    /\ NoServices

SpecFinal == InitFinal /\ [][CalculateFinalScore \/ DetermineTier]_vars

(* determine_tier applied to a given final score and confidence *)

TierScores ==
    {0, 5999 * 10 ^ 5, 60 * FinalPerPoint, 7499 * 10 ^ 5, 75 * FinalPerPoint,
     8499 * 10 ^ 5, 85 * FinalPerPoint, 90 * FinalPerPoint, 100 * FinalPerPoint}

TierConfidences == {0, 30, 49, 50, 69, 70, 100}

InitTier ==
    /\ pc = "tier"
    /\ final_score \in TierScores
    /\ confidence_analysis \in
           {[NoConfidence EXCEPT !.overall_confidence = c] : c \in TierConfidences}
    /\ ai_evidence_units = << >>
    /\ evidence_units = << >>
    /\ resume_text = ResumeBlank
    /\ metrics_11 = NoMetrics
    /\ red_flags = << >>
    /\ base_sr_score = 0
    /\ booster_points = 0
    /\ seniority = ""
    /\ tier = ""
    /\ NoPool
    /\ NoServices

SpecTier == InitTier /\ [][DetermineTier]_vars

---------------------------------------------------------------------------
(* calculate_boosters applied to evidence lists of achievement units *)

MaxRepeat == 10

(* a unit of the given type with the given proof keys and signals *)
BoosterUnit(type_, proof, signals) ==
    Scored(EvidenceUnit(type_, 4, Words(6), EmptyTime, NoOrg, signals, proof, 0),
           80, "Has proof")

BoosterUnits ==
    {BoosterUnit("award", {}, EmptySignals),
     BoosterUnit("project", {"award"}, EmptySignals),
     BoosterUnit("project", {"patent"}, EmptySignals),
     BoosterUnit("publication", {}, EmptySignals),
     BoosterUnit("project", {"repo"}, [EmptySignals EXCEPT !.stars = TRUE]),
     BoosterUnit("project", {"repo"}, EmptySignals),
     BoosterUnit("publication", {"award", "patent", "repo"},
                 [EmptySignals EXCEPT !.stars = TRUE]),
     BoosterUnit("skill_use", {}, EmptySignals)}

(* n copies of x *)
Repeat(x, n) == [i \in 1..n |-> x]

InitBoosters ==
    /\ pc = "boosters"
    /\ evidence_units \in
           {Repeat(a, n) \o <<b>> : a \in BoosterUnits, b \in BoosterUnits, n \in 0..MaxRepeat}
           \cup {Repeat(a, n) : a \in BoosterUnits, n \in 0..MaxRepeat}
    /\ ai_evidence_units = << >>
    /\ resume_text = ResumeBlank
    /\ metrics_11 = NoMetrics
    /\ red_flags = << >>
    /\ base_sr_score = 0
    /\ booster_points = 0
    /\ confidence_analysis = NoConfidence
    /\ seniority = ""
    /\ final_score = 0
    /\ tier = ""
    /\ NoPool
    /\ NoServices

SpecBoosters == InitBoosters /\ [][CalculateBoosters]_vars

---------------------------------------------------------------------------
(* apply_tiebreaker applied to a pool of candidate analyses *)

MaxPool == 3

(* A candidate analysis dict as analyze_candidate builds it, reduced to the *)
(* entries the tiebreaker reads; keys: which of them are present           *)
Candidate(name, keys, oi, tdb, sr, confidence) ==
    [candidate_name |-> name, keys |-> keys,
     metrics_11 |-> [OI_outcome_impact |-> oi, TDB_technical_depth_breadth |-> tdb,
                     SR_stability_risk |-> sr],
     confidence_score |-> confidence]

AnalysisKeys == {"metrics_11", "confidence_score"}

SampleCandidates ==
    {Candidate(0, AnalysisKeys, 5000, 5000, 4000, 70),
     Candidate(0, AnalysisKeys, 5000, 5000, 4000, 50),
     Candidate(0, AnalysisKeys, 5000, 5000, 2000, 70),
     Candidate(0, AnalysisKeys, 6000, 3000, 7000, 40),
     Candidate(0, AnalysisKeys, 5000, 6000, 7000, 40),
     Candidate(0, {}, 0, 0, 0, 0)}

(* pools of up to MaxPool analyses, named by their position in the pool *)
SamplePools ==
    UNION {{[i \in 1..k |-> [f[i] EXCEPT !.candidate_name = i]] :
                f \in [1..k -> SampleCandidates]} : k \in 0..MaxPool}

InitTiebreaker ==
    /\ pc = "tiebreaker"
    /\ candidates \in SamplePools
    /\ ranked = << >>
    /\ ai_evidence_units = << >>
    /\ evidence_units = << >>
    /\ resume_text = ResumeBlank
    /\ metrics_11 = NoMetrics
    /\ red_flags = << >>
    /\ base_sr_score = 0
    /\ booster_points = 0
    /\ confidence_analysis = NoConfidence
    /\ seniority = ""
    /\ final_score = 0
    /\ tier = ""
    /\ NoServices

ApplyTiebreaker ==
    /\ pc = "tiebreaker"
    /\ ranked' = apply_tiebreaker(candidates)
    /\ pc' = "ranked"
    /\ UNCHANGED <<ai_evidence_units, resume_text, evidence_units, metrics_11, red_flags,
                   base_sr_score, booster_points, confidence_analysis, seniority,
                   final_score, tier, candidates, service_vars>>

SpecTiebreaker == InitTiebreaker /\ [][ApplyTiebreaker]_vars

---------------------------------------------------------------------------
(* detect_red_flags applied to job histories *)

MaxRoles == 5

(* a role unit with the given dates; freelance: the context holds one of   *)
(* FREELANCE_INDICATORS                                                    *)
RoleUnit(start, end, months, freelance) ==
    Scored(EvidenceUnit("role", 4, [Words(6) EXCEPT !.freelance = freelance],
                        [start |-> start, end |-> end, months |-> months],
                        [company |-> TRUE], EmptySignals, {}, 0),
           80, "Has company and dates")

SampleRoles ==
    {RoleUnit(2010, 2020, 120, FALSE),
     RoleUnit(2011, 2012, 12, TRUE),
     RoleUnit(2013, 2014, 12, FALSE),
     RoleUnit(2020, 2024, 48, FALSE),
     RoleUnit(2024, 2024, 3, FALSE),
     RoleUnit(0, 0, -1, FALSE)}

InitRedFlags ==
    /\ pc = "red_flags"
    /\ evidence_units \in SeqsUpTo(SampleRoles, MaxRoles)
    /\ resume_text \in {ResumeBlank, ResumeGraduate}
    /\ ai_evidence_units = << >>
    /\ metrics_11 = NoMetrics
    /\ red_flags = << >>
    /\ base_sr_score = 0
    /\ booster_points = 0
    /\ confidence_analysis = NoConfidence
    /\ seniority = ""
    /\ final_score = 0
    /\ tier = ""
    /\ NoPool
    /\ NoServices

SpecRedFlags == InitRedFlags /\ [][DetectRedFlags]_vars

---------------------------------------------------------------------------
(* extract_from_ai_analysis applied to the upstream evidence records *)

InitExtract ==
    /\ pc = "convert"
    /\ ai_evidence_units \in SeqsUpTo(SampleRecords, MaxRecords)
    /\ evidence_units = << >>
    /\ resume_text = ResumeBlank
    /\ metrics_11 = NoMetrics
    /\ red_flags = << >>
    /\ base_sr_score = 0
    /\ booster_points = 0
    /\ confidence_analysis = NoConfidence
    /\ seniority = ""
    /\ final_score = 0
    /\ tier = ""
    /\ NoPool
    /\ NoServices

(* Step 2 of analyze_candidate up to the returned list *)
ConvertRecords ==
    /\ pc = "convert"
    /\ evidence_units' = extract_from_ai_analysis(ai_evidence_units)
    /\ pc' = "converted"
    /\ UNCHANGED <<pool_vars, service_vars>>
    /\ UNCHANGED <<ai_evidence_units, resume_text, metrics_11, red_flags, base_sr_score,
                   booster_points, confidence_analysis, seniority, final_score, tier>>

SpecExtract == InitExtract /\ [][ConvertRecords]_vars

---------------------------------------------------------------------------
(* calculate_confidence applied to evidence lists *)

MaxConfidenceUnits == 4

(* a unit of the given type, credibility and dates *)
DatedUnit(type_, score, start, end) ==
    Scored(EvidenceUnit(type_, 4, Words(6),
                        [start |-> start, end |-> end, months |-> 12],
                        [company |-> TRUE], EmptySignals, {}, 0),
           score, "Has company and dates")

ConfidenceUnits ==
    {DatedUnit("role", 100, 2020, 2023),
     DatedUnit("project", 100, 2021, 2022),
     DatedUnit("role", 80, 2019, 2020),
     DatedUnit("project", 100, 1985, 2022),
     Scored(EvidenceUnit("publication", 4, Words(6), EmptyTime, NoOrg, EmptySignals,
                         {"link"}, 0), 100, "Published, with link")}

InitConfidence ==
    /\ pc = "confidence"
    /\ evidence_units \in SeqsUpTo(ConfidenceUnits, MaxConfidenceUnits)
    /\ ai_evidence_units = << >>
    /\ resume_text = ResumeBlank
    /\ metrics_11 = NoMetrics
    /\ red_flags = << >>
    /\ base_sr_score = 0
    /\ booster_points = 0
    /\ confidence_analysis = NoConfidence
    /\ seniority = ""
    /\ final_score = 0
    /\ tier = ""
    /\ NoPool
    /\ NoServices

SpecConfidence == InitConfidence /\ [][CalculateConfidence]_vars

----------------------------------------------------------------------------
(* Resume verification system: rule-based metric plausibility check       *)
(* (phase 3, red_flag_detector.py).  A metric string is represented by    *)
(* what the two regular expressions find in it: whether                   *)
(* "(\d+)%\s*(increase|improvement|growth)" matches and its number, and   *)
(* whether "(\d+)([MKB]?)\+?\s*users?" matches and the user total.        *)

MaxMetrics == 2

(* RedFlagDetector.METRIC_THRESHOLDS['percentage_increase'] *)
METRIC_THRESHOLDS ==
    [m1 |-> 50, m3 |-> 100, m6 |-> 200, m12 |-> 500]

HighPercentage == 200

UserLimit == 100000

DefaultDurationMonths == 12

Metric(pct_match, percentage, user_match, total_users) ==
    [pct_match |-> pct_match, percentage |-> percentage,
     user_match |-> user_match, total_users |-> total_users]

(* claim.get('time_period', {}).get('duration_months', 12) *)
DurationOf(c) ==
    IF "time_period" \in c.keys /\ "duration_months" \in c.time_period.keys
    THEN c.time_period.duration_months
    ELSE DefaultDurationMonths

PercentageFlag(c, percentage, duration) ==
    [flag_id |-> "metric_pct", severity |-> IF percentage > HighPercentage THEN "high" ELSE "medium",
     category |-> "implausible", affected_claims |-> <<c.claim_id>>,
     percentage |-> percentage, duration |-> duration, requires_proof |-> TRUE]

UsersFlag(c, total_users) ==
    [flag_id |-> "users", severity |-> "medium",
     category |-> "implausible", affected_claims |-> <<c.claim_id>>,
     percentage |-> 0, duration |-> 0, requires_proof |-> TRUE]

(* The flags one metric string adds: the body of the loop *)
MetricFlags(c, metric) ==
    LET duration == DurationOf(c)
        pct == IF /\ metric.pct_match
                  /\ duration <= 1
                  /\ metric.percentage > METRIC_THRESHOLDS.m1
               THEN <<PercentageFlag(c, metric.percentage, duration)>>
               ELSE << >>
        users == IF /\ metric.user_match
                    /\ c.category = "project"
                    /\ metric.total_users > UserLimit
                    /\ c.startup
                 THEN <<UsersFlag(c, metric.total_users)>>
                 ELSE << >>
    IN  pct \o users

RECURSIVE MetricLoop(_, _)
MetricLoop(c, metrics) ==
    IF metrics = << >> THEN << >>
    ELSE MetricFlags(c, Head(metrics)) \o MetricLoop(c, Tail(metrics))

_check_metric_plausibility(c) ==
    MetricLoop(c, IF "quantifiable_metrics" \in c.keys THEN c.quantifiable_metrics ELSE << >>)

SamplePercentages == {40, 60, 150, 250, 600}

SamplePlausibilityMetrics ==
    {Metric(TRUE, p, FALSE, 0) : p \in SamplePercentages}
        \cup {Metric(FALSE, 0, FALSE, 0), Metric(FALSE, 0, TRUE, 2000000),
              Metric(TRUE, 150, TRUE, 50000)}

SampleDurations == {0, 1, 3, 6, 12, 24}

Claim(metrics, has_period, duration, category, startup) ==
    [keys |-> {"claim_id", "claim_text", "category", "quantifiable_metrics"}
                  \cup (IF has_period THEN {"time_period"} ELSE {}),
     claim_id |-> "c1", category |-> category, startup |-> startup,
     quantifiable_metrics |-> metrics,
     time_period |-> IF duration = 0 THEN [keys |-> {}]
                     ELSE [keys |-> {"duration_months"}, duration_months |-> duration]]

SampleClaims ==
    {Claim(ms, TRUE, d, cat, st) :
        ms \in SeqsUpTo(SamplePlausibilityMetrics, MaxMetrics), d \in SampleDurations,
        cat \in {"project", "work_experience"}, st \in BOOLEAN}
    \cup {Claim(ms, FALSE, 0, "project", FALSE) : ms \in SeqsUpTo(SamplePlausibilityMetrics, MaxMetrics)}

NoPipeline ==
    /\ ai_evidence_units = << >>
    /\ evidence_units = << >>
    /\ resume_text = ResumeBlank
    /\ metrics_11 = NoMetrics
    /\ red_flags = << >>
    /\ base_sr_score = 0
    /\ booster_points = 0
    /\ confidence_analysis = NoConfidence
    /\ seniority = ""
    /\ final_score = 0
    /\ tier = ""
    /\ NoPool

pipeline_vars ==
    <<ai_evidence_units, resume_text, evidence_units, metrics_11, red_flags, base_sr_score,
      booster_points, confidence_analysis, seniority, final_score, tier, pool_vars>>

InitPlausibility ==
    /\ pc = "plausibility"
    /\ NoPipeline
    /\ claim_dict \in SampleClaims
    /\ metric_flags = << >>
    /\ circuit_breaker = [failure_count |-> 0, open_until |-> 0]
    /\ cache = [cache |-> << >>, max_size |-> 0]
    /\ clock = 0
    /\ call = NoCall
    /\ screening_engine = NoEngine
    /\ response = NoResponse

CheckMetricPlausibility ==
    /\ pc = "plausibility"
    /\ metric_flags' = _check_metric_plausibility(claim_dict)
    /\ pc' = "flagged"
    /\ UNCHANGED <<pipeline_vars, claim_dict, analyzer_vars, server_vars>>

SpecPlausibility == InitPlausibility /\ [][CheckMetricPlausibility]_vars

----------------------------------------------------------------------------
(* calculate_all_11_metrics over units that differ in their dates *)

MaxRecencyUnits == 2

SampleEnds == {0, 2015, 2023, 2025, 2027}

RecencyUnit(type_, score, end) ==
    Scored(EvidenceUnit(type_, 4, Words(6),
                        [start |-> IF end = 0 THEN 0 ELSE end - 1, end |-> end, months |-> 12],
                        [company |-> TRUE], EmptySignals, {}, 0),
           score, "Has company and dates")

RecencyUnits ==
    {RecencyUnit(t, 100, e) : t \in {"role", "cert"}, e \in SampleEnds}
        \cup {RecencyUnit("project", 60, 2023), RecencyUnit("skill_use", 100, 2015)}

InitRecency ==
    /\ pc = "metrics"
    /\ evidence_units \in SeqsUpTo(RecencyUnits, MaxRecencyUnits)
    /\ ai_evidence_units = << >>
    /\ resume_text = ResumeBlank
    /\ metrics_11 = NoMetrics
    /\ red_flags = << >>
    /\ base_sr_score = 0
    /\ booster_points = 0
    /\ confidence_analysis = NoConfidence
    /\ seniority = ""
    /\ final_score = 0
    /\ tier = ""
    /\ NoPool
    /\ NoServices

SpecRecency == InitRecency /\ [][CalculateMetrics]_vars

----------------------------------------------------------------------------
(* Selection sheet generator: GeminiAnalyzer with its circuit breaker and  *)
(* its LRU cache (analyzer.py).  Time is in seconds; time.time() and       *)
(* datetime.now() read the same clock.  A prompt is represented by an      *)
(* identifier and by the two substrings _get_fallback_response looks for.  *)
(* A Python value is a record: kind "None", "str" (with its text) or       *)
(* "raised" (an exception that leaves the function, with its class).       *)

MaxTicks == 3

MaxFailures == 6

MaxCacheSize == 2

CACHE_MAX_SIZE == 100

CACHE_EXPIRY_HOURS == 24

SecondsPerHour == 3600

BreakerThreshold == 5

BreakerCooldown == 60

None == [kind |-> "None", text |-> ""]

Str(text) == [kind |-> "str", text |-> text]

Raised(error) == [kind |-> "raised", text |-> error]

(* bool(value) of an Optional[str] *)
Truthy(value) == value.kind = "str" /\ value.text # ""

(* CircuitBreaker.__init__ *)
CircuitBreaker == [failure_count |-> 0, open_until |-> 0]

(* CircuitBreaker.allow *)
allow(self, now) == now >= self.open_until

(* CircuitBreaker.record_success *)
record_success(self) == [self EXCEPT !.failure_count = 0]

(* record_failure that starts a new count once the breaker has opened *)
record_failure_restarting(self, now) ==
    IF self.failure_count + 1 >= BreakerThreshold
    THEN [failure_count |-> 0, open_until |-> now + BreakerCooldown]
    ELSE [self EXCEPT !.failure_count = self.failure_count + 1]

(* CircuitBreaker.record_failure *)
record_failure(self, now) ==
    LET count == self.failure_count + 1
    IN  [failure_count |-> count,
         open_until |-> IF count >= BreakerThreshold THEN now + BreakerCooldown
                        ELSE self.open_until]

(* LRUCache.__init__: the OrderedDict is a list of entries, oldest first *)
LRUCache(max_size) == [cache |-> << >>, max_size |-> max_size]

(* LRUCache._make_key: the digest of model, version and prompt; two prompts *)
(* have the same digest only if they are the same prompt                    *)
_make_key(prompt) == <<"GEMINI_MODEL", "v2.0", prompt.id>>

KeyIn(entries, key) == \E i \in 1..Len(entries) : entries[i].key = key

Entry(entries, key) == CHOOSE e \in {entries[i] : i \in 1..Len(entries)} : e.key = key

(* OrderedDict.pop(key) *)
Without(entries, key) ==
    LET Other(e) == e.key # key
    IN  SelectSeq(entries, Other)

(* LRUCache.get: the cache after the call and the value returned *)
cache_get(self, prompt, now) ==
    LET key == _make_key(prompt)
    IN  IF KeyIn(self.cache, key)
        THEN LET e      == Entry(self.cache, key)
                 popped == Without(self.cache, key)
             IN  IF now - e.timestamp < CACHE_EXPIRY_HOURS * SecondsPerHour
                 THEN [self |-> [self EXCEPT !.cache = Append(popped, e)], value |-> e.value]
                 ELSE [self |-> [self EXCEPT !.cache = popped], value |-> None]
        ELSE [self |-> self, value |-> None]

(* LRUCache.set that only evicts when the cache is over its size *)
cache_set_late_eviction(self, prompt, value, now) ==
    LET key  == _make_key(prompt)
        kept == IF KeyIn(self.cache, key) THEN Without(self.cache, key)
                ELSE IF Len(self.cache) > self.max_size THEN Tail(self.cache)
                ELSE self.cache
    IN  [self EXCEPT !.cache = Append(kept, [key |-> key, value |-> value, timestamp |-> now])]

(* LRUCache.set: the cache after the call *)
cache_set(self, prompt, value, now) ==
    LET key  == _make_key(prompt)
        kept == IF KeyIn(self.cache, key) THEN Without(self.cache, key)
                ELSE IF Len(self.cache) >= self.max_size THEN Tail(self.cache)
                ELSE self.cache
    IN  [self EXCEPT !.cache = Append(kept, [key |-> key, value |-> value, timestamp |-> now])]

(* _get_default_trajectory reads candidate.name, _get_default_questions    *)
(* reads job.required_skills: of None both raise AttributeError            *)
_get_default_trajectory(candidate) ==
    IF candidate = None THEN Raised("AttributeError") ELSE Str("trajectory")

_get_default_questions(job) ==
    IF job = None THEN Raised("AttributeError") ELSE Str("questions")

(* GeminiAnalyzer._get_fallback_response: json.dumps of the default *)
_get_fallback_response(prompt) ==
    IF prompt.career_trajectory THEN _get_default_trajectory(None)
    ELSE IF prompt.interview THEN _get_default_questions(None)
    ELSE Str("fallback")

(* GeminiAnalyzer._call_gemini.  outcome is what model.generate_content    *)
(* does if it is called: "text" (a response with a text) or "error" (an    *)
(* exception).  Result: the analyzer afterwards, whether the model was     *)
(* invoked, and the value returned or the exception raised.                *)
_call_gemini(breaker, lru, prompt, use_cache, outcome, now) ==
    LET got     == IF use_cache THEN cache_get(lru, prompt, now)
                   ELSE [self |-> lru, value |-> None]
        text    == Str(prompt.id)
    IN  IF use_cache /\ Truthy(got.value)
        THEN [circuit_breaker |-> breaker, cache |-> got.self,
              invoked |-> FALSE, result |-> got.value]
        ELSE IF ~allow(breaker, now)
        THEN [circuit_breaker |-> breaker, cache |-> got.self,
              invoked |-> FALSE, result |-> _get_fallback_response(prompt)]
        ELSE IF outcome # "error"
        THEN [circuit_breaker |-> record_success(breaker),
              cache |-> IF use_cache THEN cache_set(got.self, prompt, text, now) ELSE got.self,
              invoked |-> TRUE, result |-> text]
        ELSE [circuit_breaker |-> record_failure(breaker, now), cache |-> got.self,
              invoked |-> TRUE, result |-> _get_fallback_response(prompt)]

Prompt(id, career_trajectory, interview) ==
    [id |-> id, career_trajectory |-> career_trajectory, interview |-> interview]

(* the prompts of analyze_career_trajectory and generate_interview_questions *)
(* and a prompt with neither substring                                       *)
SamplePrompts ==
    {Prompt("trajectory", TRUE, FALSE), Prompt("questions", FALSE, TRUE),
     Prompt("other", FALSE, FALSE)}

Outcomes == {"text", "error"}

CallOf(op, prompt, use_cache, invoked, result) ==
    [op |-> op, prompt |-> prompt, use_cache |-> use_cache, invoked |-> invoked,
     result |-> result]

(* GeminiAnalyzer.__init__ *)
InitGemini ==
    /\ pc = "analyzer"
    /\ NoPipeline
    /\ circuit_breaker = CircuitBreaker
    /\ cache = LRUCache(CACHE_MAX_SIZE)
    /\ clock = 0
    /\ call = NoCall
    /\ claim_dict = [keys |-> {}]
    /\ metric_flags = << >>
    /\ screening_engine = NoEngine
    /\ response = NoResponse

CallGemini ==
    /\ pc = "analyzer"
    /\ \E prompt \in SamplePrompts, use_cache \in BOOLEAN, outcome \in Outcomes :
          LET r == _call_gemini(circuit_breaker, cache, prompt, use_cache, outcome, clock)
          IN  /\ r.circuit_breaker.failure_count <= MaxFailures
              /\ circuit_breaker' = r.circuit_breaker
              /\ cache' = r.cache
              /\ call' = CallOf("_call_gemini", prompt.id, use_cache, r.invoked, r.result)
    /\ UNCHANGED <<pc, pipeline_vars, clock, detector_vars, server_vars>>

(* Time passes between two calls *)
Advance(step) ==
    /\ clock < MaxTicks * step
    /\ clock' = clock + step
    /\ UNCHANGED <<pc, pipeline_vars, circuit_breaker, cache, call, detector_vars, server_vars>>

TickSeconds == Advance(BreakerCooldown \div 2)

SpecGemini == InitGemini /\ [][CallGemini \/ TickSeconds]_vars

----------------------------------------------------------------------------
(* API server: the /api/analyze handler and its global engine             *)
(* (api_server.py).  The engine is a record of the attributes __init__    *)
(* sets (attrs), the key it gave to genai.configure and its candidates_db; *)
(* response is the list of the responses sent so far.                      *)

MaxRequests == 3

(* GeminiScreeningEngine.__init__ *)
GeminiScreeningEngine(api_key) ==
    [created |-> TRUE, attrs |-> {"model", "candidates_db", "scoring_engine"},
     configured_key |-> api_key, candidates_db |-> << >>]

Request(api_key, resume_file, job_description) ==
    [api_key |-> api_key, resume_file |-> resume_file, job_description |-> job_description]

SampleRequests ==
    {Request(k, r, j) : k \in {"", "key1", "key2"}, r \in {"", "resume1", "resume2"},
                        j \in BOOLEAN}

Response(request, status, error) == [request |-> request, status |-> status, error |-> error]

(* analyze_candidate of the handler: the response and the engine afterwards. *)
(* init_ok: whether a GeminiScreeningEngine(api_key) call returns.           *)
analyze_candidate(engine, request, init_ok) ==
    IF request.api_key = ""
    THEN [engine |-> engine, response |-> Response(request, 400, "API key is required")]
    ELSE IF request.resume_file = ""
    THEN [engine |-> engine, response |-> Response(request, 400, "Resume file is required")]
    ELSE IF ~request.job_description
    THEN [engine |-> engine, response |-> Response(request, 400, "Job description is required")]
    ELSE IF engine.created /\ "api_key" \notin engine.attrs
    THEN [engine |-> engine, response |-> Response(request, 500, "Analysis failed: AttributeError")]
    ELSE IF ~engine.created \/ engine.api_key # request.api_key
    THEN IF init_ok
         THEN LET fresh == GeminiScreeningEngine(request.api_key)
              IN  [engine |-> [fresh EXCEPT !.candidates_db = <<request.resume_file>>],
                   response |-> Response(request, 200, "")]
         ELSE [engine |-> engine,
               response |-> Response(request, 500, "Failed to initialize engine")]
    ELSE [engine |-> [engine EXCEPT !.candidates_db = Append(@, request.resume_file)],
          response |-> Response(request, 200, "")]

InitServer ==
    /\ pc = "server"
    /\ NoPipeline
    /\ screening_engine = NoEngine
    /\ response = << >>
    /\ claim_dict = [keys |-> {}]
    /\ metric_flags = << >>
    /\ circuit_breaker = CircuitBreaker
    /\ cache = LRUCache(0)
    /\ clock = 0
    /\ call = NoCall

AnalyzeRequest ==
    /\ pc = "server"
    /\ Len(response) < MaxRequests
    /\ \E request \in SampleRequests, init_ok \in BOOLEAN :
          LET r == analyze_candidate(screening_engine, request, init_ok)
          IN  /\ screening_engine' = r.engine
              /\ response' = Append(response, r.response)
    /\ UNCHANGED <<pc, pipeline_vars, detector_vars, analyzer_vars>>

SpecServer == InitServer /\ [][AnalyzeRequest]_vars

----------------------------------------------------------------------------
(* LRUCache on its own: get and set calls on a small cache, hours apart *)

SampleValues == {Str("a"), Str("b")}

InitCache ==
    /\ pc = "cache"
    /\ NoPipeline
    /\ cache \in {LRUCache(n) : n \in 1..MaxCacheSize}
    /\ clock = 0
    /\ call = NoCall
    /\ circuit_breaker = CircuitBreaker
    /\ claim_dict = [keys |-> {}]
    /\ metric_flags = << >>
    /\ screening_engine = NoEngine
    /\ response = NoResponse

CacheGet ==
    /\ pc = "cache"
    /\ \E prompt \in SamplePrompts :
          LET r == cache_get(cache, prompt, clock)
          IN  /\ cache' = r.self
              /\ call' = CallOf("get", prompt.id, TRUE, FALSE, r.value)
    /\ UNCHANGED <<pc, pipeline_vars, circuit_breaker, clock, detector_vars, server_vars>>

CacheSet ==
    /\ pc = "cache"
    /\ \E prompt \in SamplePrompts, value \in SampleValues :
          /\ cache' = cache_set(cache, prompt, value, clock)
          /\ call' = CallOf("set", prompt.id, TRUE, FALSE, value)
    /\ UNCHANGED <<pc, pipeline_vars, circuit_breaker, clock, detector_vars, server_vars>>

TickHours == Advance((CACHE_EXPIRY_HOURS * SecondsPerHour) \div 2)

SpecCache == InitCache /\ [][CacheGet \/ CacheSet \/ TickHours]_vars

---------------------------------------------------------------------------
(* Properties *)

Confidence == confidence_analysis.overall_confidence

Tiers == {"Fast-Track", "Advance to Interview", "Hold/More Info", "No-Go"}

C2_EmptyEvidenceIsNoGo ==
    (pc = "done" /\ evidence_units = << >>) =>
        /\ \A code \in Codes : metrics_11[code] = 0
        /\ final_score = 0
        /\ tier = "No-Go"

RECURSIVE SumWeights(_, _)
SumWeights(weights, i) ==
    IF i > Len(MetricCodes) THEN 0
    ELSE weights[MetricCodes[i]] + SumWeights(weights, i + 1)

MaxScore(metrics) ==
    CHOOSE m \in {metrics[code] : code \in Codes} :
        \A code \in Codes : metrics[code] <= m

(* C3: each of the four seniority weight vectors has exactly the 11 metric *)
(* codes as keys and integer weights summing to 100, so with no boosters   *)
(* the weighted sum divided by 100 never exceeds the largest sub-metric    *)
(* score.                                                                  *)
C3_WeightsSumTo100 ==
    (pc = "tier" /\ booster_points = 0) =>
        /\ \A level \in SeniorityLevels :
              /\ DOMAIN SENIORITY_WEIGHTS[level] = Codes
              /\ SumWeights(SENIORITY_WEIGHTS[level], 1) = 100
        /\ RawWithBoosters(metrics_11, seniority, 0) <= 100 * MaxScore(metrics_11)

(* C4: calculate_final_score returns a value in [0,100]; for confidence in *)
(* [0,1] and raw_with_boosters >= 0 the value before clamping lies in      *)
(* [0.9 x raw_with_boosters, raw_with_boosters], so the result never       *)
(* exceeds raw_with_boosters and falls below 0.9 x raw_with_boosters only  *)
(* by the clamp at 100.                                                    *)
C4_FinalScoreRange ==
    pc \in {"tier", "done"} =>
        LET raw == RawWithBoosters(metrics_11, seniority, booster_points)
            pre == AdjustedScore(metrics_11, seniority, Confidence, booster_points)
        IN  /\ 0 <= final_score
            /\ final_score <= 100 * FinalPerPoint
            /\ (Confidence \in 0..CredUnit /\ raw >= 0) =>
                  /\ 900 * raw <= pre
                  /\ pre <= 1000 * raw
                  /\ final_score <= 1000 * raw
                  /\ final_score >= Min(100 * FinalPerPoint, 900 * raw)

C4_Witness ==
    /\ pc = "tier"
    /\ Confidence = 0
    /\ booster_points = 4
    /\ RawWithBoosters(metrics_11, seniority, booster_points) > 0
    /\ final_score = 900 * RawWithBoosters(metrics_11, seniority, booster_points)
    /\ final_score < 100 * FinalPerPoint

AfterConfidence == pc \in {"seniority", "final", "tier", "done"}

(* C5: the overall confidence returned by calculate_confidence is in [0,1] *)
(* for every evidence list the engine can be given, including lists built  *)
(* by extract_from_ai_analysis from records carrying their own             *)
(* credibility_score.                                                      *)
C5_ConfidenceInUnitInterval ==
    AfterConfidence => (0 <= Confidence /\ Confidence <= CredUnit)

(* C6: every EvidenceUnit that reaches the scoring stages has              *)
(* credibility_score in [0,1], whether computed, copied from the upstream  *)
(* record or assigned by the fallback extractors.                          *)
C6_CredibilityInUnitInterval ==
    pc # "extract" =>
        \A i \in 1..Len(evidence_units) :
            /\ 0 <= evidence_units[i].credibility_score
            /\ evidence_units[i].credibility_score <= CredUnit

(* C7: calculate_credibility returns the score of the first matching rule, *)
(* never a sum: (1) proof.link/repo/patent -> 1.0; (2) (signals.delta or   *)
(* signals.value) and org.company and time.start -> 0.8; (3) context of    *)
(* more than 5 words and time.start -> 0.6; (4) claim of more than 2 words *)
(* -> 0.3; (5) otherwise 0.0.  A unit with no time, org, signals or proof  *)
(* and a claim of at most 2 words scores 0.0.                              *)
C7_CredibilityLadder ==
    pc = "done" =>
        LET eu == evidence_units[1]
            r1 == \E k \in {"link", "repo", "patent"} : k \in eu.proof
            r2 == (eu.signals.delta \/ eu.signals.value) /\ eu.org.company
                  /\ eu.time.start # 0
            r3 == eu.context.words > 5 /\ eu.time.start # 0
            r4 == eu.claim > 2
            s  == eu.credibility_score
        IN  /\ r1 => s = 100
            /\ (~r1 /\ r2) => s = 80
            /\ (~r1 /\ ~r2 /\ r3) => s = 60
            /\ (~r1 /\ ~r2 /\ ~r3 /\ r4) => s = 30
            /\ (~r1 /\ ~r2 /\ ~r3 /\ ~r4) => s = 0
            /\ (/\ eu.time = EmptyTime /\ ~eu.org.company
                /\ eu.signals = EmptySignals /\ eu.proof = {} /\ eu.claim <= 2) => s = 0
            /\ eu.credibility_rationale # ""

C7_Witness ==
    /\ pc = "done"
    /\ "link" \in evidence_units[1].proof
    /\ evidence_units[1].signals.delta
    /\ evidence_units[1].org.company
    /\ evidence_units[1].time.start # 0
    /\ evidence_units[1].context.words > 5
    /\ evidence_units[1].claim > 2
    /\ evidence_units[1].credibility_score = 100

(* C8: for every metric code and every evidence list, the metric is        *)
(* exactly 0 when no evidence unit is eligible for it (not the sigmoid of  *)
(* a zero raw sum), in calculate_metric_from_eus and in the scores         *)
(* calculate_all_11_metrics reports.                                       *)
C8_NoEligibleEvidenceScoresZero ==
    pc # "metrics" =>
        \A code \in Codes :
            _filter_eus_for_metric(evidence_units, code) = << >> =>
                /\ calculate_metric_from_eus(evidence_units, code, code \in {"XR", "GA"}) = 0
                /\ metrics_11[code] = 0

C8_Witness ==
    /\ pc = "done"
    /\ Len(evidence_units) = 1
    /\ evidence_units[1].credibility_score = 0
    /\ _filter_eus_for_metric(evidence_units, "XR") = << >>
    /\ metrics_11["XR"] = 0
    /\ _filter_eus_for_metric(evidence_units, "TDB") # << >>
    /\ metrics_11["TDB"] = Round1(sigmoid_score(0, SIGMOID_MU))
    /\ metrics_11["TDB"] = 340

(* The evidence is one role unit: 5 years, no proof, no signals, a 20-word *)
(* context                                                                 *)
BareRoleOnly ==
    /\ Len(evidence_units) = 1
    /\ evidence_units[1].type = "role"
    /\ evidence_units[1].time.months = 60
    /\ evidence_units[1].proof = {}
    /\ evidence_units[1].signals = EmptySignals
    /\ evidence_units[1].context.words = 20

(* C9, as stated: for a candidate whose only evidence is a single role     *)
(* unit (5 years, no proof, no signals, 20-word context) the pipeline      *)
(* yields TDB = 0, while XR > 0.                                           *)
C9_BareRoleTDBZero ==
    (pc = "done" /\ BareRoleOnly) =>
        (metrics_11["TDB"] = 0 /\ metrics_11["XR"] > 0)

(* C9, amended: for such a candidate the pipeline yields TDB > 0, because  *)
(* a role unit is eligible evidence for TDB, and XR > 0.                   *)
C9_BareRoleTDBPositive ==
    (pc = "done" /\ BareRoleOnly) =>
        (metrics_11["TDB"] > 0 /\ metrics_11["XR"] > 0)

C9_Witness ==
    /\ pc = "done"
    /\ BareRoleOnly
    /\ ai_evidence_units = <<RoleBare>>
    /\ metrics_11["TDB"] = 470
    /\ metrics_11["XR"] = 470

(* The claim's penalty table, as the factor 1 - penalty in tenths *)
TableFactor(severity) ==
    CASE severity = "low" -> 9 [] severity = "medium" -> 7 [] severity = "high" -> 5

RECURSIVE FactorProduct(_)
FactorProduct(flags) ==
    IF flags = << >> THEN 1
    ELSE TableFactor(Head(flags).severity) * FactorProduct(Tail(flags))

(* C10: apply_red_flag_penalties(base, flags) is max(0, base x product of  *)
(* (1 - penalty(severity))) with low 0.10, medium 0.30, high 0.50 (to the  *)
(* resolution of the score, each of the k products being truncated):       *)
(* penalties compound, so two medium flags take 100 to 49, not 40, and for *)
(* base >= 0 one more flag never increases the result.                     *)
C10_PenaltiesCompound ==
    pc = "boosters" =>
        LET k      == Len(red_flags)
            result == metrics_11["SR"]
        IN  /\ (\A i \in 1..k : red_flags[i].severity \in {"low", "medium", "high"}) =>
                  /\ result * 10 ^ k <= base_sr_score * FactorProduct(red_flags)
                  /\ base_sr_score * FactorProduct(red_flags) - result * 10 ^ k
                         < Max(k, 1) * 10 ^ k
            /\ (/\ base_sr_score = 100 * CentiPerPoint
                /\ k = 2
                /\ \A i \in 1..k : red_flags[i].severity = "medium")
                  => (result = 49 * CentiPerPoint /\ result # 40 * CentiPerPoint)
            /\ 0 <= result
            /\ result <= base_sr_score
            /\ \A f \in SampleFlags :
                  apply_red_flag_penalties(base_sr_score, Append(red_flags, f)) <= result

C10_Witness ==
    /\ pc = "boosters"
    /\ base_sr_score = 100 * CentiPerPoint
    /\ Len(red_flags) = 2
    /\ red_flags[1].severity = "medium"
    /\ red_flags[2].severity = "medium"
    /\ metrics_11["SR"] = 49 * CentiPerPoint

(* The number of units of a list that satisfy Test *)
CountUnits(units, Test(_)) == Len(SelectSeq(units, Test))

IsAwardUnit(eu) == eu.type = "award" \/ "award" \in eu.proof

IsPatentUnit(eu) == eu.type = "patent" \/ "patent" \in eu.proof

IsPublicationUnit(eu) == eu.type = "publication" \/ "publication" \in eu.proof

IsMajorOSSUnit(eu) == "repo" \in eu.proof /\ eu.signals.stars

(* The claim's raw booster points of an evidence list *)
RawBoost(units) ==
      5 * CountUnits(units, IsAwardUnit) + 5 * CountUnits(units, IsPatentUnit)
    + 4 * CountUnits(units, IsPublicationUnit) + 3 * CountUnits(units, IsMajorOSSUnit)

(* C11: calculate_boosters returns min(15, sum over the evidence units of   *)
(* +5 per award, +5 per patent, +4 per publication, +3 per major           *)
(* open-source unit), so the total is in [0,15] for every evidence list;   *)
(* ten award-type units (50 raw points) yield exactly 15.                  *)
C11_BoostersCapped ==
    pc = "confidence" =>
        /\ booster_points = Min(15, RawBoost(evidence_units))
        /\ booster_points \in 0..15
        /\ (Len(evidence_units) = 10 /\ \A i \in 1..10 : evidence_units[i].type = "award")
              => booster_points = 15

C11_Witness ==
    /\ pc = "confidence"
    /\ Len(evidence_units) = 10
    /\ \A i \in 1..10 : evidence_units[i].type = "award"
    /\ RawBoost(evidence_units) = 50
    /\ booster_points = 15

(* The claim's tuple (OI score, TDB score, confidence, 100 - SR score) of a *)
(* candidate that carries all of them                                      *)
OIOf(c) == c.metrics_11.OI_outcome_impact

TDBOf(c) == c.metrics_11.TDB_technical_depth_breadth

SROf(c) == c.metrics_11.SR_stability_risk

(* a ranks strictly above b by the claim's tuple *)
RanksAbove(a, b) ==
    \/ OIOf(a) > OIOf(b)
    \/ OIOf(a) = OIOf(b) /\ TDBOf(a) > TDBOf(b)
    \/ OIOf(a) = OIOf(b) /\ TDBOf(a) = TDBOf(b) /\ a.confidence_score > b.confidence_score
    \/ /\ OIOf(a) = OIOf(b) /\ TDBOf(a) = TDBOf(b)
       /\ a.confidence_score = b.confidence_score
       /\ 100 * CentiPerPoint - SROf(a) > 100 * CentiPerPoint - SROf(b)

FullCandidates == \A i \in 1..Len(candidates) : candidates[i].keys = AnalysisKeys

(* C12: apply_tiebreaker returns a permutation of the pool ordered          *)
(* descending by (OI score, TDB score, confidence, 100 - SR score);        *)
(* candidates with equal tuples keep their original relative order; with   *)
(* equal OI and TDB the higher confidence is first, and with equal         *)
(* confidence too the lower SR is first.                                   *)
C12_TiebreakerOrder ==
    (pc = "ranked" /\ FullCandidates) =>
        /\ Len(ranked) = Len(candidates)
        /\ {ranked[i] : i \in 1..Len(ranked)} = {candidates[i] : i \in 1..Len(candidates)}
        /\ \A i, j \in 1..Len(ranked) :
              /\ RanksAbove(ranked[i], ranked[j]) => i < j
              /\ (/\ ~RanksAbove(ranked[i], ranked[j])
                  /\ ~RanksAbove(ranked[j], ranked[i])
                  /\ ranked[i].candidate_name < ranked[j].candidate_name) => i < j
              /\ (/\ OIOf(ranked[i]) = OIOf(ranked[j])
                  /\ TDBOf(ranked[i]) = TDBOf(ranked[j])
                  /\ ranked[i].confidence_score > ranked[j].confidence_score) => i < j
              /\ (/\ OIOf(ranked[i]) = OIOf(ranked[j])
                  /\ TDBOf(ranked[i]) = TDBOf(ranked[j])
                  /\ ranked[i].confidence_score = ranked[j].confidence_score
                  /\ SROf(ranked[i]) < SROf(ranked[j])) => i < j

(* a pool with a tie on the whole tuple, a tie broken by confidence and a  *)
(* tie broken by SR, whose ranking differs from the input order            *)
C12_Witness ==
    /\ pc = "ranked"
    /\ FullCandidates
    /\ Len(ranked) = 3
    /\ ranked # candidates
    /\ \E i, j \in 1..3 :
          /\ i < j
          /\ ~RanksAbove(ranked[i], ranked[j])
          /\ ~RanksAbove(ranked[j], ranked[i])
    /\ \E i, j \in 1..3 :
          /\ OIOf(ranked[i]) = OIOf(ranked[j])
          /\ TDBOf(ranked[i]) = TDBOf(ranked[j])
          /\ ranked[i].confidence_score = ranked[j].confidence_score
          /\ SROf(ranked[i]) < SROf(ranked[j])

FlagKinds ==
    {"Short tenure(s)", "job changes in <=3 years", "Employment gap",
     "Overlapping or conflicting employment dates"}

(* C13: every red flag emitted by RedFlagDetector.detect_red_flags (short  *)
(* tenure, job hopping, employment gap, date conflict) carries a non-empty *)
(* suggested interview probe field.                                        *)
C13_FlagsCarryProbe ==
    pc = "penalty" =>
        \A i \in 1..Len(red_flags) :
            /\ red_flags[i].flag \in FlagKinds
            /\ "interview_probe" \in red_flags[i].keys
            /\ red_flags[i].interview_probe # ""

(* an upstream record with the required type and claim *)
WellFormed(rec) == "type" \in rec.keys /\ "claim" \in rec.keys

(* C14: when the upstream list contains a malformed record (one missing     *)
(* the required type or claim), extract_from_ai_analysis rejects only that *)
(* record and returns units for exactly the well-formed records, in order, *)
(* adding no unit for the malformed one.                                   *)
C14_MalformedRecordSkipped ==
    pc = "converted" =>
        LET kept == SelectSeq(ai_evidence_units, WellFormed)
        IN  /\ Len(evidence_units) = Len(kept)
            /\ \A i \in 1..Len(kept) :
                  i <= Len(evidence_units) =>
                      /\ evidence_units[i].type = kept[i].type
                      /\ evidence_units[i].claim = kept[i].claim

(* The stages of one analysis in the claim's order (seniority detection    *)
(* runs between confidence and final score)                                *)
StageOrder ==
    <<"metrics", "red_flags", "penalty", "boosters", "confidence", "seniority",
      "final", "tier", "done">>

StageRank(stage) == CHOOSE i \in 1..Len(StageOrder) : StageOrder[i] = stage

(* the final score the run would get from the SR score before penalties *)
FinalScoreFromBaseSR ==
    calculate_final_score([metrics_11 EXCEPT !["SR"] = base_sr_score], seniority,
                          Confidence, booster_points)

C16_SuppliedOrComputed ==
    pc = "converted" =>
        /\ Len(evidence_units) = Len(ai_evidence_units)
        /\ \A i \in 1..Len(evidence_units) :
              evidence_units[i].credibility_score =
                  IF "credibility_score" \in ai_evidence_units[i].keys
                  THEN ai_evidence_units[i].credibility_score
                  ELSE calculate_credibility(evidence_units[i]).score

(* C18: every EvidenceUnit that reaches the scoring stages or is serialized *)
(* by to_dict has a non-empty credibility_rationale, including units built *)
(* by extract_from_ai_analysis from upstream records.                      *)
C18_RationaleNonEmpty ==
    pc = "converted" =>
        \A i \in 1..Len(evidence_units) : evidence_units[i].credibility_rationale # ""

AllFullyCredible == \A i \in 1..Len(evidence_units) : evidence_units[i].credibility_score = 100

(* every sub-metric has at least 2 eligible evidence units *)
FullCoverage ==
    \A code \in Codes :
        Cardinality({i \in 1..Len(evidence_units) : Relevant(evidence_units[i], code)}) >= 2

(* every date of the list is a plausible year, and there is one *)
PerfectConsistency ==
    /\ \E i \in 1..Len(evidence_units) :
          evidence_units[i].time.start # 0 \/ evidence_units[i].time.end # 0
    /\ \A i \in 1..Len(evidence_units) :
          \A year \in {evidence_units[i].time.start, evidence_units[i].time.end} \ {0} :
              year >= 1990 /\ year <= 2025

StartedRoles ==
    {i \in 1..Len(evidence_units) : IsRole(evidence_units[i]) /\ HasStart(evidence_units[i])}

(* some 4 roles of the history have start years spanning at most 3 years *)
FourRolesWithinThreeYears ==
    \E four \in SUBSET StartedRoles :
        /\ Cardinality(four) = 4
        /\ \A i, j \in four :
              evidence_units[i].time.start - evidence_units[j].time.start <= 3

FlagsOfKind(kind) == SelectSeq(red_flags, LAMBDA f : f.flag = kind)

(* C19: detect_red_flags emits a job-hopping flag of severity medium        *)
(* whenever the role evidence contains at least 4 roles whose start years  *)
(* span at most 3 years, whichever 4 roles of the history they are, and    *)
(* emits no job-hopping flag otherwise.                                    *)
C19_JobHoppingAnyFourRoles ==
    pc = "penalty" =>
        LET hops == FlagsOfKind("job changes in <=3 years")
        IN  IF FourRolesWithinThreeYears
            THEN Len(hops) = 1 /\ hops[1].severity = "medium"
            ELSE hops = << >>

(* the interval of a role runs from its start year to its end year, an     *)
(* open-ended role having no end                                           *)
Overlaps(a, b) ==
    /\ a.time.start <= b.time.start
    /\ (a.time.end = 0 \/ b.time.start < a.time.end)

(* two non-freelance roles of the history overlap *)
SomeFullTimeOverlap ==
    \E i, j \in StartedRoles :
        /\ i # j
        /\ ~evidence_units[i].context.freelance
        /\ ~evidence_units[j].context.freelance
        /\ Overlaps(evidence_units[i], evidence_units[j])

(* C20: detect_red_flags emits exactly one date-conflict flag of severity   *)
(* high whenever any two non-freelance roles have overlapping intervals,   *)
(* regardless of how many roles lie between them in start order or whether *)
(* a freelance role lies between them, and none when no two non-freelance  *)
(* roles overlap.                                                          *)
C20_DateConflictAnyPair ==
    pc = "penalty" =>
        LET conflicts == FlagsOfKind("Overlapping or conflicting employment dates")
        IN  IF SomeFullTimeOverlap
            THEN Len(conflicts) = 1 /\ conflicts[1].severity = "high"
            ELSE conflicts = << >>

(* the positions of the role units that have an end year *)
EndedRoles ==
    {i \in 1..Len(evidence_units) : IsRole(evidence_units[i]) /\ HasEnd(evidence_units[i])}

(* the place of role i among the roles ordered by end year, roles with the *)
(* same end year staying in list order                                     *)
EndRank(i) ==
    1 + Cardinality({j \in EndedRoles :
            \/ evidence_units[j].time.end < evidence_units[i].time.end
            \/ evidence_units[j].time.end = evidence_units[i].time.end /\ j < i})

(* the pairs of consecutive roles where the later one starts more than 6   *)
(* months after the earlier one ends (years count 12 months)               *)
GapPairs ==
    {pair \in EndedRoles \X EndedRoles :
        /\ EndRank(pair[2]) = EndRank(pair[1]) + 1
        /\ evidence_units[pair[2]].time.start # 0
        /\ (evidence_units[pair[2]].time.start - evidence_units[pair[1]].time.end) * 12 > 6}

RoleCount == Cardinality({i \in 1..Len(evidence_units) : IsRole(evidence_units[i])})

----------------------------------------------------------------------------
(* C22: the metric plausibility check flags a claim as implausible, with  *)
(* severity high or medium, whenever a stated percentage improvement      *)
(* exceeds the threshold of the claim's duration window: above 50% within *)
(* 1 month, above 100% within 3, above 200% within 6, above 500% within   *)
(* 12 months.                                                             *)
WindowThreshold(duration) ==
    IF duration <= 1 THEN METRIC_THRESHOLDS.m1
    ELSE IF duration <= 3 THEN METRIC_THRESHOLDS.m3
    ELSE IF duration <= 6 THEN METRIC_THRESHOLDS.m6
    ELSE METRIC_THRESHOLDS.m12

ExceedsWindow(c, metric) ==
    /\ metric.pct_match
    /\ DurationOf(c) <= 12
    /\ metric.percentage > WindowThreshold(DurationOf(c))

FlaggedPercentage(percentage) ==
    \E i \in 1..Len(metric_flags) :
        /\ metric_flags[i].flag_id = "metric_pct"
        /\ metric_flags[i].category = "implausible"
        /\ metric_flags[i].severity \in {"high", "medium"}
        /\ metric_flags[i].percentage = percentage

C22_EveryWindowFlagged ==
    pc = "flagged" =>
        \A i \in 1..Len(claim_dict.quantifiable_metrics) :
            ExceedsWindow(claim_dict, claim_dict.quantifiable_metrics[i])
                => FlaggedPercentage(claim_dict.quantifiable_metrics[i].percentage)


----------------------------------------------------------------------------
(* C23: calculate_all_11_metrics applies recency decay to XR (tau 36) and *)
(* GA (tau 24) only, and only to units that have time.end; a unit without *)
(* time.end or with an end in the future is weighted 1.0.  The other nine *)
(* scores do not change when the time fields of a unit change.            *)
SampleTimes ==
    {[start |-> s, end |-> e, months |-> m] :
        s \in {0, 2014}, e \in SampleEnds, m \in {-1, 12}}

UndatedMetrics == Codes \ {"XR", "GA"}

RecencyFactor(eu, tau) ==
    IF eu.time.end = 0 \/ eu.time.end > CurrentYear THEN WeightUnit
    ELSE ExpNegSixths((6 * 12 * (CurrentYear - eu.time.end)) \div tau)

RECURSIVE DecayedSum(_, _, _)
DecayedSum(units, code, tau) ==
    IF units = << >> THEN 0
    ELSE LET eu   == Head(units)
             full == eu.credibility_score * 10 * (MilliPerPoint \div CredUnit)
             part == Min((full * RecencyFactor(eu, tau)) \div WeightUnit,
                         EU_CONTRIBUTION_CAP * MilliPerPoint)
         IN  (IF eu.type \in metric_filters[code] THEN part ELSE 0)
                 + DecayedSum(Tail(units), code, tau)

DecayedScore(code, tau) ==
    IF \A i \in 1..Len(evidence_units) : evidence_units[i].type \notin metric_filters[code]
    THEN 0
    ELSE Round1(Min(100 * MilliPerPoint,
                    Max(0, sigmoid_score(DecayedSum(evidence_units, code, tau), SIGMOID_MU))))

C23_RecencyOnlyXRAndGA ==
    pc = "red_flags" =>
        /\ metrics_11["XR"] = DecayedScore("XR", 36)
        /\ metrics_11["GA"] = DecayedScore("GA", 24)
        /\ \A i \in 1..Len(evidence_units) : \A t \in SampleTimes :
              LET changed == [evidence_units EXCEPT ![i].time = t]
              IN  \A code \in UndatedMetrics :
                      calculate_all_11_metrics(changed)[code] = metrics_11[code]

C23_Witness ==
    /\ pc = "red_flags"
    /\ \E i, j \in 1..Len(evidence_units) :
          /\ evidence_units[i].type = "role"
          /\ evidence_units[i].time.end = 2015
          /\ evidence_units[j].type = "role"
          /\ evidence_units[j].time.end = 2027
    /\ metrics_11["XR"] > 0
    /\ metrics_11["XR"] < metrics_11["SR"]


----------------------------------------------------------------------------
(* The step is one _call_gemini call (time does not pass during a call) *)
GeminiCalled == clock' = clock /\ call'.op = "_call_gemini"

(* the model was invoked and returned its text / raised *)
ModelSucceeded == GeminiCalled /\ call'.invoked /\ call'.result = Str(call'.prompt)

ModelFailed == GeminiCalled /\ call'.invoked /\ call'.result # Str(call'.prompt)

(* the value returned is the one the cache held for the prompt *)
ServedFromCache ==
    /\ call'.use_cache
    /\ \E i \in 1..Len(cache.cache) :
          /\ cache.cache[i].key[3] = call'.prompt
          /\ cache.cache[i].value = call'.result

(* C24: the circuit breaker opens when the failure count reaches the      *)
(* threshold of 5; from then until the cooldown of 60 s has elapsed       *)
(* allow() is false and _call_gemini returns a fallback without invoking  *)
(* the model, unless the prompt is served from the cache; a success       *)
(* resets the count to 0, and fewer than 5 failures since the last        *)
(* success never open the breaker.                                        *)
C24_OpenBreakerReturnsFallback ==
    [][/\ (ModelFailed /\ circuit_breaker'.failure_count >= 5)
            => circuit_breaker'.open_until = clock + 60
       /\ (ModelFailed /\ circuit_breaker'.failure_count < 5)
            => circuit_breaker'.open_until = circuit_breaker.open_until
       /\ ModelSucceeded => circuit_breaker' = [circuit_breaker EXCEPT !.failure_count = 0]
       /\ (GeminiCalled /\ clock < circuit_breaker.open_until)
            => /\ ~allow(circuit_breaker, clock)
               /\ ~call'.invoked
               /\ circuit_breaker' = circuit_breaker
               /\ \/ ServedFromCache
                  \/ call'.result = Str("fallback")
                  \/ call'.result = Str("trajectory")
                  \/ call'.result = Str("questions")]_vars

(* What the breaker itself does, whatever value the call returns *)
BreakerDiscipline ==
    [][/\ (ModelFailed /\ circuit_breaker'.failure_count >= 5)
            => circuit_breaker'.open_until = clock + 60
       /\ (ModelFailed /\ circuit_breaker'.failure_count < 5)
            => circuit_breaker'.open_until = circuit_breaker.open_until
       /\ ModelSucceeded => circuit_breaker' = [circuit_breaker EXCEPT !.failure_count = 0]
       /\ (GeminiCalled /\ clock < circuit_breaker.open_until)
            => /\ ~allow(circuit_breaker, clock)
               /\ ~call'.invoked
               /\ circuit_breaker' = circuit_breaker]_vars

----------------------------------------------------------------------------
(* C25: _call_gemini never raises to its caller; when the model call      *)
(* fails or the breaker is open it returns a fallback string for every    *)
(* prompt, the career-trajectory and interview prompts included.          *)
C25_CallGeminiNeverRaises ==
    call.op = "_call_gemini" => call.result.kind = "str"


----------------------------------------------------------------------------
(* C26: analyze_candidate never hands an empty evidence list to scoring:  *)
(* with fewer than 3 converted units the regex fallback units are         *)
(* appended, and if the list is still empty it becomes one minimal role   *)
(* unit of credibility 0.4; so evidence_count is at least 1.              *)
IsMinimalEvidence(units) ==
    /\ Len(units) = 1
    /\ units[1].type = "role"
    /\ units[1].credibility_score = 40
    /\ units[1].credibility_rationale = "Minimal evidence - requires manual review"

C26_EvidenceNeverEmpty ==
    pc # "extract" =>
        LET from_ai  == extract_from_ai_analysis(ai_evidence_units)
            fallback == _smart_evidence_extraction(resume_text)
        IN  /\ Len(evidence_units) >= 1
            /\ Len(from_ai) >= 3 => evidence_units = from_ai
            /\ (Len(from_ai) < 3 /\ Len(from_ai) + Len(fallback) > 0)
                  => evidence_units = from_ai \o fallback
            /\ (Len(from_ai) < 3 /\ Len(from_ai) + Len(fallback) = 0)
                  => IsMinimalEvidence(evidence_units)

C26_Witness ==
    /\ pc = "metrics"
    /\ ai_evidence_units = << >>
    /\ _smart_evidence_extraction(resume_text) = << >>
    /\ IsMinimalEvidence(evidence_units)


----------------------------------------------------------------------------
(* C27: across /api/analyze requests the server holds one engine: created *)
(* on the first request, reused with its accumulated candidates_db by     *)
(* every later request with the same api_key, and created anew only when  *)
(* the api_key differs; a later request with the same key does not fail   *)
(* because of the engine check.                                           *)
Served == response'[Len(response')]

WellFormedRequest(request) ==
    request.api_key # "" /\ request.resume_file # "" /\ request.job_description

C27_EngineReusedForSameKey ==
    [][(/\ screening_engine.created
        /\ WellFormedRequest(Served.request)
        /\ Served.request.api_key = screening_engine.configured_key)
          => /\ Served.status = 200
             /\ screening_engine'.candidates_db
                   = Append(screening_engine.candidates_db, Served.request.resume_file)]_vars


----------------------------------------------------------------------------
(* C28: the expiry of the cooldown does not reset the failure count: once *)
(* the breaker has opened and until a success is recorded, the first      *)
(* failure after the cooldown opens it again for a full cooldown, and     *)
(* only record_success brings the count down.                             *)
C28_CooldownKeepsFailureCount ==
    [][/\ clock' # clock => circuit_breaker' = circuit_breaker
       /\ (ModelFailed /\ circuit_breaker.failure_count >= 5)
            => /\ circuit_breaker'.failure_count = circuit_breaker.failure_count + 1
               /\ circuit_breaker'.open_until = clock + 60
       /\ circuit_breaker'.failure_count < circuit_breaker.failure_count
            => ModelSucceeded /\ circuit_breaker'.failure_count = 0]_vars

C28_Witness ==
    /\ call.op = "_call_gemini"
    /\ call.invoked
    /\ circuit_breaker.failure_count = 6
    /\ clock >= 60
    /\ circuit_breaker.open_until = clock + 60


----------------------------------------------------------------------------
(* C29: the LRU cache never holds more than max_size entries; a set of a  *)
(* new key into a full cache evicts exactly the least recently used       *)
(* entry, where a successful get or a set of an existing key makes an     *)
(* entry the most recent; get never returns an entry as old as the expiry *)
(* window (24 hours) and removes it instead.                              *)
CacheCalled(op) == clock' = clock /\ call'.op = op

CalledKey == <<"GEMINI_MODEL", "v2.0", call'.prompt>>

Held(entries, key) == \E i \in 1..Len(entries) : entries[i].key = key

Others(entries, key) ==
    LET Other(e) == e.key # key
    IN  SelectSeq(entries, Other)

HeldEntry(entries, key) == CHOOSE e \in {entries[i] : i \in 1..Len(entries)} : e.key = key

Fresh(e) == clock - e.timestamp < 24 * 3600

SetEntry == [key |-> CalledKey, value |-> call'.result, timestamp |-> clock]

C29_LRUCacheBoundedAndOrdered ==
    [][/\ Len(cache'.cache) <= cache'.max_size
       /\ \A i, j \in 1..Len(cache'.cache) :
             cache'.cache[i].key = cache'.cache[j].key => i = j
       /\ (CacheCalled("set") /\ ~Held(cache.cache, CalledKey)
                              /\ Len(cache.cache) = cache.max_size)
             => cache'.cache = Append(Tail(cache.cache), SetEntry)
       /\ (CacheCalled("set") /\ ~Held(cache.cache, CalledKey)
                              /\ Len(cache.cache) < cache.max_size)
             => cache'.cache = Append(cache.cache, SetEntry)
       /\ (CacheCalled("set") /\ Held(cache.cache, CalledKey))
             => cache'.cache = Append(Others(cache.cache, CalledKey), SetEntry)
       /\ (CacheCalled("get") /\ Held(cache.cache, CalledKey)
                              /\ Fresh(HeldEntry(cache.cache, CalledKey)))
             => /\ call'.result = HeldEntry(cache.cache, CalledKey).value
                /\ cache'.cache = Append(Others(cache.cache, CalledKey),
                                         HeldEntry(cache.cache, CalledKey))
       /\ (CacheCalled("get") /\ Held(cache.cache, CalledKey)
                              /\ ~Fresh(HeldEntry(cache.cache, CalledKey)))
             => /\ call'.result = None
                /\ cache'.cache = Others(cache.cache, CalledKey)
       /\ (CacheCalled("get") /\ ~Held(cache.cache, CalledKey))
             => call'.result = None /\ cache' = cache]_vars

C29_Witness ==
    /\ call.op = "get"
    /\ call.result = None
    /\ clock >= 24 * 3600
    /\ Len(cache.cache) = cache.max_size
    /\ cache.max_size = 2
    /\ cache.cache[1].timestamp > cache.cache[2].timestamp


----------------------------------------------------------------------------
(* C30: calculate_all_11_metrics gives AC and CF the same score, and that *)
(* score is the SR score before the red-flag penalties: all three are     *)
(* computed from the role units only, without recency decay and without a *)
(* multiplier.                                                            *)
RECURSIVE RoleSum(_)
RoleSum(units) ==
    IF units = << >> THEN 0
    ELSE (IF Head(units).type = "role"
          THEN Min(Head(units).credibility_score * 10 * (MilliPerPoint \div CredUnit),
                   EU_CONTRIBUTION_CAP * MilliPerPoint)
          ELSE 0) + RoleSum(Tail(units))

RoleOnlyScore ==
    IF \A i \in 1..Len(evidence_units) : evidence_units[i].type # "role" THEN 0
    ELSE Round1(Min(100 * MilliPerPoint,
                    Max(0, sigmoid_score(RoleSum(evidence_units), SIGMOID_MU))))

C30_ACAndCFEqualBaseSR ==
    pc \notin {"extract", "metrics"} =>
        /\ metrics_11["AC"] = metrics_11["CF"]
        /\ metrics_11["AC"] = RoleOnlyScore
        /\ pc \in {"red_flags", "penalty"} => metrics_11["SR"] = metrics_11["AC"]
        /\ pc \notin {"red_flags", "penalty"} => base_sr_score = metrics_11["AC"]

C30_Witness ==
    /\ pc = "boosters"
    /\ red_flags # << >>
    /\ metrics_11["AC"] > 0
    /\ metrics_11["SR"] < metrics_11["AC"]
    /\ \E i \in 1..Len(evidence_units) : evidence_units[i].type # "role"

=============================================================================
